---- MODULE Spec2Model ----
(***************************************************************************)
(* A model of the agent platform: the agent runtime (BaseAgent.execute),   *)
(* the Celery scheduler (beat + workers + run_agent), the lead-generation  *)
(* pipeline driver (run_pipeline.main), the personalized outreach stage    *)
(* (send_outreach.run) and the two processes that start pipeline runs     *)
(* (tools.scheduler and the tools.server facade).                          *)
(*                                                                         *)
(* Each subsystem has its own variables and its own specification; a       *)
(* specification keeps the variables of the other subsystems at their      *)
(* idle value.                                                             *)
(***************************************************************************)
EXTENDS Integers, Sequences, FiniteSets, TLC

VARIABLES
    \* --- agent runtime: one thread calling BaseAgent.execute() ---
    ex,          \* the frame of execute(): pc, self.name, locals, pending exception
    posts,       \* the POST /metrics attempts made by _push_metrics, in order
    \* --- Celery scheduler ---
    broker,      \* the messages in the queue: [id, agent, retries]
    tasks,       \* per task id: its state, retry count and what it has done
    workers,     \* per worker: the task whose agent.execute() it is running (0: idle)
    \* --- lead-generation pipeline: store, configuration, one call of main() ---
    config,        \* environment: GMASS_API_KEY set or not, OUTREACH_TRANSPORT
    leads,         \* the leads table: per lead id, the columns the driver reads
    outreach,      \* the outreach table: a set of rows [id, lead_id, outreach_type]
    pipeline_runs, \* the pipeline_runs table: the rows, in insertion order
    pl,            \* the frame of run_pipeline.main(): pc, stats, errors, ...
    \* --- concurrent executions of send_outreach.run() on the shared store ---
    orun,          \* per execution: pc, transport, the leads still to process, sent_count
    \* --- the scheduler process (tools.scheduler) and the facade (tools.server) ---
    schedEnv,      \* SCHEDULE_TIME, SCHEDULE_DAYS, RUN_ON_STARTUP, SCHEDULE_CATCHUP_ON_BOOT
    sched,         \* the frame of scheduler.main(): pc, startup_ran, last_scheduled_run_date, now
    wall,          \* the local wall clock: [date, slot]
    shutdown_requested,  \* the module flag _shutdown_requested
    reqs,          \* per POST /api/acem/run-now request: none, running, ok, error
    \* --- the metrics collector (collector/routers/metrics.py) ---
    agent_runs,    \* the committed rows of table agent_runs
    agent_metrics, \* the committed rows of table agent_metrics
    run_seq,       \* the sequence behind agent_runs.id
    post,          \* per POST /metrics request: pc, payload, run_id, status
    get,           \* per GET /metrics request: pc, parameters, runs read, result
    \* --- city rotation (db_manager.py, discover_leads.py) ---
    city_rotation, \* per city: last_searched (NullDate: NULL) and search_count
    today,         \* date.today()
    disc,          \* the frame of discover_leads.run(): pc, attempted_cities
    picks,         \* the cities update_city_searched has marked, in order
    \* --- the leads table as discovery and email enrichment see it ---
    lead_table,    \* the rows, by id: domain, website, email, email_source, status
    ins,           \* the last call of insert_lead: what it found and returned
    \* --- GET /api/acem/agent-status (server.py) ---
    run_dates,     \* the run_date column of pipeline_runs, in insertion order
    areq,          \* the request: pc, updated_after, the rows returned
    \* --- a call of _should_trigger_scheduled_run (scheduler.py) ---
    trig,          \* pc, the arguments and the value returned
    \* --- a call of _parse_schedule_days (scheduler.py) ---
    parse,         \* pc, the text given and the outcome
    \* --- the outreach table and send_followups.run() (db_manager.py, send_followups.py) ---
    outreach_table,  \* the rows, by id: lead_id, outreach_type, sent_date, replied, followup_sent, status
    current_date,  \* the date of the database clock
    frun,        \* the frame of send_followups.run(): pc, outreach_list, the row in hand
    \* --- a call of get_unsent_leads (db_manager.py) ---
    sel,         \* pc, the leads table, the limit and the rows returned
    \* --- one execution of discover_leads.run(), step by step ---
    drun,        \* pc, inserted, attempted_cities, the city and the search results in hand
    \* --- calls of reset_city_rotation (db_manager.py) ---
    reset,       \* the calls made, and the arguments and the result of the last one
    \* --- a call of a function wrapped by retry (utils.py) ---
    rt,          \* pc, the wrapped function, max_attempts, attempt, what each invocation did, the outcome
    \* --- a call of _analyze_lead (ai_analyze.py) ---
    analysis,    \* pc, the keys configured, the providers called and what they answered, the value returned
    \* --- the rows of agent-status and agent-events built from pipeline runs (server.py) ---
    feed         \* pc, the runs read, the status rows and the events built

execVars   == <<ex, posts>>
celeryVars == <<broker, tasks, workers>>
storeVars  == <<config, leads, outreach, pipeline_runs>>
driverVars == <<pl>>
orunVars   == <<orun>>
procVars   == <<schedEnv, sched, wall, shutdown_requested, reqs>>
collectorVars == <<agent_runs, agent_metrics, run_seq, post, get>>
rotationVars == <<city_rotation, today, disc, picks>>
leadTableVars == <<lead_table, ins>>
statusVars == <<run_dates, areq>>
triggerVars == <<trig>>
parserVars == <<parse>>
followupVars == <<outreach_table, current_date, frun>>
selectVars == <<sel>>
discoverVars == <<drun>>
resetVars == <<reset>>
retryVars == <<rt>>
analyzeVars == <<analysis>>
feedVars == <<feed>>
vars == <<ex, posts, broker, tasks, workers, config, leads, outreach, pipeline_runs, pl,
          orun, schedEnv, sched, wall, shutdown_requested, reqs,
          agent_runs, agent_metrics, run_seq, post, get,
          city_rotation, today, disc, picks, lead_table, ins, run_dates, areq,
          trig,
          parse,
          outreach_table, current_date, frun,
          sel,
          drun,
          reset,
          rt,
          analysis,
          feed>>

(***************************************************************************)
(* Bounds of the model.                                                    *)
(***************************************************************************)
MaxCalls   == 2      \* invocations of execute() in the agent-runtime specification
MaxTasks   == 2      \* task ids the beat producer hands out
NumWorkers == 2      \* worker slots consuming the queue
MaxLeads   == 1      \* rows of the leads table
MaxCount   == 1      \* the largest count a discovery or enrichment stage returns
NumOutreachRuns == 2 \* executions of send_outreach.run() that may overlap
MaxDay     == 2      \* calendar dates the wall clock goes through
MaxSlot    == 1      \* time-of-day slots 0..MaxSlot of a date
FirstWeekday == 5    \* ISO weekday of date 1
MaxRequests == 2     \* POST /api/acem/run-now requests
NumCities  == 3      \* configured cities (CITIES)
MaxPicks   == 5      \* cities marked as searched, over all discovery runs
MaxMinute  == 11     \* run_date minutes 0..MaxMinute of one hour
MaxSecond  == 1      \* run_date seconds 0..MaxSecond of a minute
MaxRuns    == 2      \* rows of pipeline_runs the facade reads
MaxTime    == 2      \* the timestamps 1..MaxTime a metrics payload carries
MaxLimit   == 2      \* the limits 1..MaxLimit a GET /metrics asks for
MaxChars   == 5      \* characters of a SCHEDULE_DAYS text
MaxOutreachRows == 3  \* rows of the outreach table
NumFollowupLeads == 2 \* leads that receive outreach
MaxDate    == 4      \* dates 1..MaxDate of the database clock
NumSelectLeads == 3  \* rows of the leads table get_unsent_leads reads
NumDiscoverCities == 11 \* cities of the rotation one discovery run goes through
MaxResults == 2      \* leads one search_by_location returns
MaxResets  == 1      \* calls of reset_city_rotation
MaxAttempts == 3     \* the values 0..MaxAttempts of max_attempts
MaxErrors  == 5      \* errors recorded by one pipeline run

(***************************************************************************)
(* Values.                                                                 *)
(***************************************************************************)
\* Python's None for an exception slot, and the exceptions of the model.
NoExc == [type |-> "None", msg |-> ""]
Exc(t, m) == [type |-> t, msg |-> m]
\* The exceptions a run() body raises: with a message, and with an empty one.
RunExceptions == {Exc("RuntimeError", "boom"), Exc("RuntimeError", "")}
HttpError == Exc("HTTPError", "collector unreachable")
\* str(exc): the message of the exception.
Str(e) == e.msg

\* An optional string (str | None).
Null == [null |-> TRUE, text |-> ""]
Some(s) == [null |-> FALSE, text |-> s]

\* The flat metric mappings a run() body returns, as sets of <<name, value>>.
EmptyMetrics == {}
MetricMaps == {EmptyMetrics, {<<"items_processed", 1>>},
               {<<"items_processed", 2>>, <<"errors", 0>>}}

\* What one call of run() does: it returns a mapping or raises an exception.
Returned(m) == [kind |-> "return", metrics |-> m, exc |-> NoExc]
Raised(e) == [kind |-> "raise", metrics |-> EmptyMetrics, exc |-> e]
RunResults == {Returned(m) : m \in MetricMaps} \cup {Raised(e) : e \in RunExceptions}

\* What the HTTP call of _push_metrics does: 2xx, or any failure
\* (connection error, timeout, raise_for_status on 4xx/5xx).
HttpResults == {"ok", "fail"}

(***************************************************************************)
(* agents/base_agent.py: BaseAgent.execute and BaseAgent._push_metrics     *)
(***************************************************************************)
\* The class attribute `name` of the agent under execution.
AgentNames == {"", "example_agent"}

\* execute(), line 52: the guard on self.name.
NameMissing(name) == name = ""

\* The locals of execute() after lines 55-57.
InitialLocals(now) == [started_at |-> now, error |-> Null, metrics |-> EmptyMetrics]

\* try/except of lines 59-63: the locals after run() returned or raised.
LocalsAfterRunNoError(locals, r) ==
    IF r.kind = "return" THEN [locals EXCEPT !.metrics = r.metrics] ELSE locals
LocalsAfterRun(locals, r) ==
    IF r.kind = "return"
    THEN [locals EXCEPT !.metrics = r.metrics]
    ELSE [locals EXCEPT !.error = Some(Str(r.exc))]

\* The exception in flight when the finally block is entered (`raise`, line 63).
PendingAfterRun(r) == IF r.kind = "raise" THEN r.exc ELSE NoExc

\* _push_metrics, lines 79-85: the payload posted to the collector.
Payload(name, locals, finished_at) ==
    [agent_name  |-> name,
     metrics     |-> locals.metrics,
     started_at  |-> locals.started_at,
     finished_at |-> finished_at,
     error       |-> locals.error]

\* _push_metrics, lines 86-93: the exception that leaves _push_metrics. The
\* except clause catches every failure of the HTTP call, so none leaves.
PushMetricsRaisesOnFailure(h) == IF h = "fail" THEN HttpError ELSE NoExc
PushMetricsRaises(h) == NoExc

\* The finally block: an exception raised inside it replaces the pending one.
ExecuteOutcome(pending, pushExc) == IF pushExc # NoExc THEN pushExc ELSE pending

ExecIdleFrame ==
    [pc |-> "idle", name |-> "", locals |-> InitialLocals(0), run |-> Returned(EmptyMetrics),
     pending |-> NoExc, outcome |-> NoExc, calls |-> 0, clock |-> 0,
     runEnd |-> 0, pushesThisCall |-> 0]

\* A step of the agent runtime leaves the other subsystems alone.
ExecOnly == UNCHANGED <<celeryVars, storeVars, driverVars, orunVars, procVars, collectorVars, rotationVars, leadTableVars, statusVars, triggerVars, parserVars, followupVars, selectVars, discoverVars, resetVars, retryVars, analyzeVars, feedVars>>

\* execute() is called on an agent; lines 52-57.
ExecCall(name) ==
    /\ ex.pc \in {"idle", "returned", "raised"}
    /\ ex.calls < MaxCalls
    /\ IF NameMissing(name)
       THEN ex' = [ex EXCEPT !.pc = "raised", !.name = name, !.calls = @ + 1,
                             !.clock = @ + 1, !.pending = NoExc,
                             !.locals = InitialLocals(ex.clock + 1),
                             !.outcome = Exc("ValueError", "debe definir el atributo 'name'"),
                             !.run = Returned(EmptyMetrics), !.runEnd = 0,
                             !.pushesThisCall = 0]
       ELSE ex' = [ex EXCEPT !.pc = "run", !.name = name, !.calls = @ + 1,
                             !.clock = @ + 1, !.pending = NoExc,
                             !.locals = InitialLocals(ex.clock + 1),
                             !.outcome = NoExc,
                             !.run = Returned(EmptyMetrics), !.runEnd = 0,
                             !.pushesThisCall = 0]
    /\ UNCHANGED posts
    /\ ExecOnly

\* self.run() finishes: it returns a mapping or raises; lines 59-63.
ExecRun(r) ==
    /\ ex.pc = "run"
    /\ ex' = [ex EXCEPT !.pc = "finally", !.run = r,
                        !.locals = LocalsAfterRun(ex.locals, r),
                        !.pending = PendingAfterRun(r),
                        !.clock = @ + 1, !.runEnd = ex.clock + 1]
    /\ UNCHANGED posts
    /\ ExecOnly

\* The finally block: _push_metrics posts the envelope; lines 64-70 and 72-93.
ExecPush(h) ==
    /\ ex.pc = "finally"
    /\ LET now == ex.clock + 1
           out == ExecuteOutcome(ex.pending, PushMetricsRaises(h))
       IN /\ posts' = Append(posts, [payload |-> Payload(ex.name, ex.locals, now),
                                     at |-> now, call |-> ex.calls, http |-> h])
          /\ ex' = [ex EXCEPT !.pc = IF out = NoExc THEN "returned" ELSE "raised",
                              !.outcome = out, !.clock = now,
                              !.pushesThisCall = @ + 1]
    /\ ExecOnly

ExecNext ==
    \/ \E name \in AgentNames : ExecCall(name)
    \/ \E r \in RunResults : ExecRun(r)
    \/ \E h \in HttpResults : ExecPush(h)

(***************************************************************************)
(* agents/registry.py, scheduler/celery_app.py, scheduler/tasks/runner.py  *)
(***************************************************************************)
\* The registry: agent name -> agent class.
AGENT_REGISTRY ==
    [n \in {"example_agent", "lead_generation", "onboarding_clients"} |->
        IF n = "example_agent" THEN "ExampleAgent"
        ELSE IF n = "lead_generation" THEN "LeadGenerationAgent"
        ELSE "OnboardingClientsAgent"]
NoClass == "None"

\* AGENT_REGISTRY.get(agent_name), runner.py line 31.
RegistryGetWithDefault(agent_name) ==
    IF agent_name \in DOMAIN AGENT_REGISTRY THEN AGENT_REGISTRY[agent_name]
    ELSE "ExampleAgent"
RegistryGet(agent_name) ==
    IF agent_name \in DOMAIN AGENT_REGISTRY THEN AGENT_REGISTRY[agent_name] ELSE NoClass

\* The args of the beat_schedule entries that point at run_agent, and an entry
\* whose args names no registered agent (the schedule is edited by hand and is
\* not checked against the registry when it is configured).
BeatScheduleArgs == {"lead_generation", "onboarding_clients"}
UnregisteredArg == "unknown_agent"
ScheduleArgs == BeatScheduleArgs \cup {UnregisteredArg}

\* @shared_task(max_retries=3)
max_retries == 3

\* self.retry(exc=exc): re-queue while request.retries < max_retries, else
\* raise exc, which fails the task.
RetryDecisionOffByOne(retries) == IF retries > max_retries THEN "fail" ELSE "requeue"
RetryDecision(retries) == IF retries >= max_retries THEN "fail" ELSE "requeue"

TaskIds == 1..MaxTasks
Workers == 1..NumWorkers

NoTask ==
    [agent |-> "", state |-> "NONE", retries |-> 0, executions |-> 0,
     instances |-> 0, pushes |-> 0, raised |-> NoExc, result |-> NoExc]

NoTasks == [t \in TaskIds |-> NoTask]
AllIdle == [w \in Workers |-> 0]

\* A step of the scheduler leaves the other subsystems alone.
CeleryOnly == UNCHANGED <<execVars, storeVars, driverVars, orunVars, procVars, collectorVars, rotationVars, leadTableVars, statusVars, triggerVars, parserVars, followupVars, selectVars, discoverVars, resetVars, retryVars, analyzeVars, feedVars>>

\* The beat producer: a schedule entry is due and its task is enqueued.
BeatFire(agent_name) ==
    /\ \E t \in TaskIds :
        /\ tasks[t].state = "NONE"
        /\ \A u \in TaskIds : u < t => tasks[u].state # "NONE"
        /\ tasks' = [tasks EXCEPT ![t] = [NoTask EXCEPT !.agent = agent_name,
                                                        !.state = "PENDING"]]
        /\ broker' = broker \cup {[id |-> t, agent |-> agent_name, retries |-> 0]}
    /\ UNCHANGED workers
    /\ CeleryOnly

\* A worker takes a message and runs run_agent up to the call of
\* agent.execute(); runner.py lines 29-38.
WorkerStart(w, m) ==
    /\ workers[w] = 0
    /\ m \in broker
    /\ broker' = broker \ {m}
    /\ IF RegistryGet(m.agent) = NoClass
       THEN /\ tasks' = [tasks EXCEPT ![m.id].state = "FAILURE",
                                      ![m.id].retries = m.retries,
                                      ![m.id].result = Exc("ValueError", "Agente desconocido")]
            /\ UNCHANGED workers
       ELSE /\ tasks' = [tasks EXCEPT ![m.id].state = "STARTED",
                                      ![m.id].retries = m.retries,
                                      ![m.id].instances = @ + 1]
            /\ workers' = [workers EXCEPT ![w] = m.id]
    /\ CeleryOnly

\* agent.execute() finishes in a worker: run() did r, the push did h; then
\* run_agent returns or calls self.retry; runner.py lines 38-41.
WorkerFinish(w, r, h) ==
    /\ workers[w] # 0
    /\ LET t == workers[w]
           out == ExecuteOutcome(PendingAfterRun(r), PushMetricsRaises(h))
           done == [tasks[t] EXCEPT !.executions = @ + 1, !.pushes = @ + 1,
                                    !.raised = out]
       IN IF out = NoExc
          THEN /\ tasks' = [tasks EXCEPT ![t] = [done EXCEPT !.state = "SUCCESS"]]
               /\ UNCHANGED broker
          ELSE IF RetryDecision(tasks[t].retries) = "requeue"
          THEN /\ tasks' = [tasks EXCEPT ![t] = [done EXCEPT !.state = "RETRY"]]
               /\ broker' = broker \cup {[id |-> t, agent |-> tasks[t].agent,
                                          retries |-> tasks[t].retries + 1]}
          ELSE /\ tasks' = [tasks EXCEPT ![t] = [done EXCEPT !.state = "FAILURE",
                                                            !.result = out]]
               /\ UNCHANGED broker
    /\ workers' = [workers EXCEPT ![w] = 0]
    /\ CeleryOnly

CeleryNext ==
    \/ \E a \in ScheduleArgs : BeatFire(a)
    \/ \E w \in Workers : \E m \in broker : WorkerStart(w, m)
    \/ \E w \in Workers : \E r \in RunResults : \E h \in HttpResults : WorkerFinish(w, r, h)

(***************************************************************************)
(* agents/lead_generation/tools/db_manager.py: the pipeline store          *)
(***************************************************************************)
LeadIds == 1..MaxLeads

\* Dates: NULL, a day before the run, and the day of the run (date.today()).
NullDate == 0
Yesterday == 1
Today == 2

\* LEADS_PER_DAY, the limit of every selection (environment, default 30).
LEADS_PER_DAY == 1

\* A row of leads: email, phone and ai_summary as "is not NULL", sent_date,
\* status, discovered_date.
LeadRow(email, phone, ai, sent_date, discovered_date) ==
    [email |-> email, phone |-> phone, ai |-> ai, sent_date |-> sent_date,
     status |-> IF sent_date = NullDate THEN "new" ELSE "sent",
     discovered_date |-> discovered_date]
\* The leads of the pipeline driver: without a phone, discovered yesterday.
Lead(email, ai, sent_date) == LeadRow(email, FALSE, ai, sent_date, Yesterday)
\* The rows a store can hold: a lead is sent only with an AI summary, and
\* sent_date and status change together (mark_leads_sent).
LeadRows ==
    {Lead(e, a, NullDate) : e \in BOOLEAN, a \in BOOLEAN}
        \cup {Lead(e, TRUE, Yesterday) : e \in BOOLEAN}

Min(a, b) == IF a < b THEN a ELSE b

\* The selections ORDER BY key ... LIMIT limit can return from the rows E:
\* min(limit, |E|) rows, none left out that sorts strictly before a chosen one
\* (rank: smaller sorts first).
TopK(E, rank(_), limit) ==
    {S \in SUBSET E :
        /\ Cardinality(S) = Min(limit, Cardinality(E))
        /\ \A x \in S : \A y \in E \ S : rank(y) >= rank(x)}

\* get_unsent_leads: WHERE sent_date IS NULL AND status = 'new' AND
\* ai_summary IS NOT NULL ORDER BY CASE ... END, discovered_date DESC LIMIT ?
UnsentLeads(table) ==
    {l \in DOMAIN table :
        table[l].sent_date = NullDate /\ table[l].status = "new" /\ table[l].ai}
\* The CASE of the ORDER BY clause.
PriorityClassEmailOnly(row) == IF row.email THEN 1 ELSE 3
PriorityClass(row) ==
    CASE row.email /\ row.phone -> 0
      [] row.email /\ ~row.phone -> 1
      [] ~row.email /\ row.phone -> 2
      [] OTHER -> 3
GetUnsentLeads(table, limit) ==
    LET rank(l) == PriorityClass(table[l]) * (Today + 1) + (Today - table[l].discovered_date)
    IN TopK(UnsentLeads(table), rank, limit)

\* get_leads_needing_ai: WHERE ai_summary IS NULL AND status = 'new' LIMIT ?
LeadsNeedingAi(table) == {l \in LeadIds : ~table[l].ai /\ table[l].status = "new"}

\* mark_leads_sent: UPDATE leads SET sent_date = ?, status = 'sent' WHERE id IN (...)
MarkLeadsSent(table, ids, date) ==
    [l \in LeadIds |-> IF l \in ids THEN [table[l] EXCEPT !.sent_date = date, !.status = "sent"]
                       ELSE table[l]]

\* get_leads_for_outreach: leads LEFT JOIN outreach (type 'initial') WHERE
\* sent_date IS NOT NULL AND email IS NOT NULL AND o.id IS NULL
\* ORDER BY sent_date DESC LIMIT ?
HasInitial(rows, l) == \E o \in rows : o.lead_id = l /\ o.outreach_type = "initial"
LeadsForOutreachAnyEmail(table, rows) ==
    {l \in LeadIds : table[l].sent_date # NullDate /\ ~HasInitial(rows, l)}
LeadsForOutreach(table, rows) ==
    {l \in LeadIds : table[l].sent_date # NullDate /\ table[l].email /\ ~HasInitial(rows, l)}
GetLeadsForOutreach(table, rows, limit) ==
    LET rank(l) == Today - table[l].sent_date
    IN TopK(LeadsForOutreach(table, rows), rank, limit)

\* insert_outreach: INSERT INTO outreach (...); the id is the next of the sequence.
NextOutreachId(rows) == Cardinality(rows) + 1
InsertOutreach(rows, lead_id, outreach_type) ==
    rows \cup {[id |-> NextOutreachId(rows), lead_id |-> lead_id,
                outreach_type |-> outreach_type]}
RECURSIVE InsertInitialFor(_, _)
InsertInitialFor(rows, ids) ==
    IF ids = {} THEN rows
    ELSE LET l == CHOOSE x \in ids : \A y \in ids : x <= y
         IN InsertInitialFor(InsertOutreach(rows, l, "initial"), ids \ {l})

\* log_pipeline_run: the row built from stats; stats.get(key, 0) and
\* errors as JSON text, NULL when the list is empty.
Absent == -1
StatKeys == {"discovered", "enriched", "with_email", "ai_analyzed", "sent", "outreach_sent"}
NoStats == [k \in StatKeys |-> Absent]
StatsGet(stats, key, default) == IF stats[key] = Absent THEN default ELSE stats[key]
JsonNull == [null |-> TRUE, list |-> <<>>]
JsonDumps(list) == [null |-> FALSE, list |-> list]
PipelineRunRowNoErrors(stats, errors, duration) ==
    [leads_discovered  |-> StatsGet(stats, "discovered", 0),
     leads_enriched    |-> StatsGet(stats, "enriched", 0),
     leads_with_email  |-> StatsGet(stats, "with_email", 0),
     leads_ai_analyzed |-> StatsGet(stats, "ai_analyzed", 0),
     leads_sent        |-> StatsGet(stats, "sent", 0),
     outreach_sent     |-> StatsGet(stats, "outreach_sent", 0),
     errors            |-> JsonNull,
     duration_seconds  |-> duration]
PipelineRunRow(stats, errors, duration) ==
    [leads_discovered  |-> StatsGet(stats, "discovered", 0),
     leads_enriched    |-> StatsGet(stats, "enriched", 0),
     leads_with_email  |-> StatsGet(stats, "with_email", 0),
     leads_ai_analyzed |-> StatsGet(stats, "ai_analyzed", 0),
     leads_sent        |-> StatsGet(stats, "sent", 0),
     outreach_sent     |-> StatsGet(stats, "outreach_sent", 0),
     errors            |-> IF errors # <<>> THEN JsonDumps(errors) ELSE JsonNull,
     duration_seconds  |-> duration]

(***************************************************************************)
(* agents/lead_generation/tools/run_pipeline.py: main()                    *)
(***************************************************************************)
\* The stage calls of main(), in program order.
StageOrder ==
    <<"discover_leads", "enrich_leads", "apollo_enrich", "ai_analyze",
      "build_excel", "build_email_body", "send_email", "send_outreach">>
Stages == {StageOrder[i] : i \in 1..Len(StageOrder)}
StageIndex(s) == CHOOSE i \in 1..Len(StageOrder) : StageOrder[i] = s

\* What a counting stage's run() does: it returns a count or raises.
CountResults == {"raise"} \cup {"ok"}

PlIdle ==
    [pc |-> "idle", stats |-> NoStats, errors |-> <<>>, trace |-> <<>>,
     raised |-> {}, selected |-> {}, selectedOk |-> FALSE, critical |-> "",
     clock |-> 0, logged |-> "", returned |-> NoStats]

\* A step of main() leaves the other subsystems alone.
DriverOnly == UNCHANGED <<execVars, celeryVars, orunVars, procVars, collectorVars, rotationVars, leadTableVars, statusVars, triggerVars, parserVars, followupVars, selectVars, discoverVars, resetVars, retryVars, analyzeVars, feedVars>>

\* The except handler of a stage: the zero count and the errors entry.
FailedStatsUnset(stats, key) == stats
FailedStats(stats, key) == [stats EXCEPT ![key] = 0]

\* if GMASS_API_KEY: (line 165)
OutreachAlways(cfg) == TRUE
OutreachEnabled(cfg) == cfg.gmass_key

\* main() is entered: lines 32-36, and Stage 0 (init_db and the two counts),
\* lines 42-48. An exception here is caught by the outer except (lines 182-184).
DriverStart(ok) ==
    /\ pl.pc = "idle"
    /\ pl' = IF ok
             THEN [pl EXCEPT !.pc = "discover_leads", !.clock = @ + 1]
             ELSE [pl EXCEPT !.pc = "finally", !.clock = @ + 1, !.critical = "init_db",
                             !.errors = Append(@, "Critical")]
    /\ UNCHANGED storeVars
    /\ DriverOnly

\* A stage that returns a count: try: n = stage.run(); stats[key] = n
\* except: stats[key] = 0; errors.append(label).
CountStage(stage, key, label, next, res, n) ==
    /\ pl.pc = stage
    /\ pl' = IF res = "ok"
             THEN [pl EXCEPT !.pc = next, !.clock = @ + 1, !.trace = Append(@, stage),
                             !.stats = [@ EXCEPT ![key] = n]]
             ELSE [pl EXCEPT !.pc = next, !.clock = @ + 1, !.trace = Append(@, stage),
                             !.raised = @ \cup {stage},
                             !.stats = FailedStats(@, key),
                             !.errors = Append(@, label)]

\* Stage 1, lines 50-60.
DiscoverStage(res, n) ==
    /\ CountStage("discover_leads", "discovered", "Discovery", "enrich_leads", res, n)
    /\ UNCHANGED storeVars
    /\ DriverOnly

\* Stage 2a, lines 62-73.
EnrichStage(res, n) ==
    /\ CountStage("enrich_leads", "enriched", "Website enrichment", "apollo_enrich", res, n)
    /\ UNCHANGED storeVars
    /\ DriverOnly

\* Stage 2b, lines 75-86.
ApolloStage(res, n) ==
    /\ CountStage("apollo_enrich", "with_email", "Apollo enrichment", "ai_analyze", res, n)
    /\ UNCHANGED storeVars
    /\ DriverOnly

\* Stage 3, lines 88-98: ai_analyze.run() writes an AI summary on the leads
\* it analysed (the set A, at most LEADS_PER_DAY of those needing it) and
\* returns their number.
AiStage(res, A) ==
    /\ A \subseteq LeadsNeedingAi(leads)
    /\ Cardinality(A) <= LEADS_PER_DAY
    /\ res = "raise" => A = {}
    /\ CountStage("ai_analyze", "ai_analyzed", "AI analysis", "select", res, Cardinality(A))
    /\ leads' = [l \in LeadIds |-> IF l \in A THEN [leads[l] EXCEPT !.ai = TRUE] ELSE leads[l]]
    /\ UNCHANGED <<config, outreach, pipeline_runs>>
    /\ DriverOnly

\* Stage 4, lines 100-109: leads = get_unsent_leads(limit=LEADS_PER_DAY); the
\* call is outside every inner try, so its exception reaches the outer except.
\* With no lead the report is skipped and stats["sent"] = 0.
SelectLeads(ok, S) ==
    /\ pl.pc = "select"
    /\ S \in GetUnsentLeads(leads, LEADS_PER_DAY)
    /\ pl' = IF ~ok
             THEN [pl EXCEPT !.pc = "finally", !.clock = @ + 1,
                             !.critical = "get_unsent_leads",
                             !.errors = Append(@, "Critical")]
             ELSE IF S = {}
             THEN [pl EXCEPT !.pc = "send_outreach", !.clock = @ + 1, !.selectedOk = TRUE,
                             !.stats = [@ EXCEPT !["sent"] = 0]]
             ELSE [pl EXCEPT !.pc = "build_excel", !.clock = @ + 1, !.selectedOk = TRUE,
                             !.selected = S]
    /\ UNCHANGED storeVars
    /\ DriverOnly

\* Lines 118-125: build_excel.run; on exception excel_path = None and an
\* errors entry; there is no count for this stage.
BuildExcel(ok) ==
    /\ pl.pc = "build_excel"
    /\ pl' = IF ok
             THEN [pl EXCEPT !.pc = "build_email_body", !.clock = @ + 1,
                             !.trace = Append(@, "build_excel")]
             ELSE [pl EXCEPT !.pc = "build_email_body", !.clock = @ + 1,
                             !.trace = Append(@, "build_excel"),
                             !.raised = @ \cup {"build_excel"},
                             !.errors = Append(@, "Excel")]
    /\ UNCHANGED storeVars
    /\ DriverOnly

\* Lines 127-134: build_email_body.run; on exception a fallback body.
BuildEmailBody(ok) ==
    /\ pl.pc = "build_email_body"
    /\ pl' = IF ok
             THEN [pl EXCEPT !.pc = "send_email", !.clock = @ + 1,
                             !.trace = Append(@, "build_email_body")]
             ELSE [pl EXCEPT !.pc = "send_email", !.clock = @ + 1,
                             !.trace = Append(@, "build_email_body"),
                             !.raised = @ \cup {"build_email_body"},
                             !.errors = Append(@, "Email body")]
    /\ UNCHANGED storeVars
    /\ DriverOnly

\* Stage 5, lines 136-162: send_email.run returns True (the leads are marked
\* sent; mark_leads_sent may itself raise), returns False, or raises.
SendResults == {"true", "true_mark_raises", "false", "raise"}
SendEmail(res) ==
    /\ pl.pc = "send_email"
    /\ LET base == [pl EXCEPT !.pc = "send_outreach", !.clock = @ + 1,
                              !.trace = Append(@, "send_email")]
       IN CASE res = "true" ->
                 /\ leads' = MarkLeadsSent(leads, pl.selected, Today)
                 /\ pl' = [base EXCEPT !.stats = [@ EXCEPT !["sent"] = Cardinality(pl.selected)]]
            [] res = "false" ->
                 /\ leads' = leads
                 /\ pl' = [base EXCEPT !.stats = [@ EXCEPT !["sent"] = 0],
                                       !.errors = Append(@, "Email: send_email returned False")]
            [] res = "raise" ->
                 /\ leads' = leads
                 /\ pl' = [base EXCEPT !.stats = FailedStats(@, "sent"),
                                       !.raised = @ \cup {"send_email"},
                                       !.errors = Append(@, "Email send")]
            [] res = "true_mark_raises" ->
                 /\ leads' = leads
                 /\ pl' = [base EXCEPT !.stats = FailedStats(@, "sent"),
                                       !.errors = Append(@, "Email send")]
    /\ UNCHANGED <<config, outreach, pipeline_runs>>
    /\ DriverOnly

\* send_outreach.run(limit) run to its end by one caller: the leads selected
\* by get_leads_for_outreach, of which those in Sent had their email
\* generated, sent and recorded (send_outreach.py lines 41-133).
OutreachRunResult(table, rows, limit, L, Sent) ==
    /\ L \in GetLeadsForOutreach(table, rows, limit)
    /\ Sent \subseteq L

\* Stage 6, lines 164-180: skipped without GMASS_API_KEY (outreach_sent = 0);
\* else send_outreach.run(limit=LEADS_PER_DAY) inside a try.
OutreachStage(res, L, Sent) ==
    /\ pl.pc = "send_outreach"
    /\ OutreachRunResult(leads, outreach, LEADS_PER_DAY, L, Sent)
    /\ IF ~OutreachEnabled(config)
       THEN /\ pl' = [pl EXCEPT !.pc = "finally", !.clock = @ + 1,
                                !.stats = [@ EXCEPT !["outreach_sent"] = 0]]
            /\ outreach' = outreach
       ELSE IF res = "ok"
       THEN /\ pl' = [pl EXCEPT !.pc = "finally", !.clock = @ + 1,
                                !.trace = Append(@, "send_outreach"),
                                !.stats = [@ EXCEPT !["outreach_sent"] = Cardinality(Sent)]]
            /\ outreach' = InsertInitialFor(outreach, Sent)
       ELSE /\ pl' = [pl EXCEPT !.pc = "finally", !.clock = @ + 1,
                                !.trace = Append(@, "send_outreach"),
                                !.raised = @ \cup {"send_outreach"},
                                !.stats = FailedStats(@, "outreach_sent"),
                                !.errors = Append(@, "Outreach")]
            /\ outreach' = outreach
    /\ UNCHANGED <<config, leads, pipeline_runs>>
    /\ DriverOnly

\* The finally block, lines 186-195, and return stats: the duration and the
\* errors go into stats, log_pipeline_run inserts the row; its exception is
\* swallowed.
LogRun(ok) ==
    /\ pl.pc = "finally"
    /\ pl' = [pl EXCEPT !.pc = "done", !.clock = @ + 1,
                        !.logged = IF ok THEN "inserted" ELSE "failed",
                        !.returned = pl.stats]
    /\ pipeline_runs' = IF ok
                        THEN Append(pipeline_runs, PipelineRunRow(pl.stats, pl.errors, pl.clock))
                        ELSE pipeline_runs
    /\ UNCHANGED <<config, leads, outreach>>
    /\ DriverOnly

DriverNext ==
    \/ \E ok \in BOOLEAN : DriverStart(ok)
    \/ \E res \in CountResults : \E n \in 0..MaxCount : DiscoverStage(res, n)
    \/ \E res \in CountResults : \E n \in 0..MaxCount : EnrichStage(res, n)
    \/ \E res \in CountResults : \E n \in 0..MaxCount : ApolloStage(res, n)
    \/ \E res \in CountResults : \E A \in SUBSET LeadIds : AiStage(res, A)
    \/ \E ok \in BOOLEAN : \E S \in SUBSET LeadIds : SelectLeads(ok, S)
    \/ \E ok \in BOOLEAN : BuildExcel(ok)
    \/ \E ok \in BOOLEAN : BuildEmailBody(ok)
    \/ \E res \in SendResults : SendEmail(res)
    \/ \E res \in CountResults : \E L \in SUBSET LeadIds : \E Sent \in SUBSET LeadIds :
           OutreachStage(res, L, Sent)
    \/ \E ok \in BOOLEAN : LogRun(ok)


(***************************************************************************)
(* agents/lead_generation/tools/send_outreach.py: run(), step by step      *)
(***************************************************************************)
OutreachRuns == 1..NumOutreachRuns
OutreachIdle == [pc |-> "idle", transport |-> "", todo |-> {}, selected |-> {}, sent_count |-> 0]

\* A step of send_outreach.run() leaves the other subsystems alone.
OutreachOnly == UNCHANGED <<execVars, celeryVars, driverVars, procVars, collectorVars, rotationVars, leadTableVars, statusVars, triggerVars, parserVars, followupVars, selectVars, discoverVars, resetVars, retryVars, analyzeVars, feedVars>>

\* Lines 31-34: the transport setting, normalised.
Transport(cfg) == IF cfg.transport \in {"gmass", "smtp"} THEN cfg.transport ELSE "gmass"

\* run() is entered: lines 31-47. Without a GMass key on the gmass transport,
\* or with no lead to contact, it returns 0.
OutreachBegin(r, L) ==
    /\ orun[r].pc = "idle"
    /\ L \in GetLeadsForOutreach(leads, outreach, LEADS_PER_DAY)
    /\ orun' = [orun EXCEPT ![r] =
                  IF Transport(config) = "gmass" /\ ~config.gmass_key
                  THEN [@ EXCEPT !.pc = "done", !.transport = Transport(config)]
                  ELSE IF L = {}
                  THEN [@ EXCEPT !.pc = "done", !.transport = Transport(config)]
                  ELSE [@ EXCEPT !.pc = "loop", !.transport = Transport(config),
                                 !.todo = L, !.selected = L]]
    /\ UNCHANGED storeVars
    /\ OutreachOnly

\* One iteration of the loop, lines 50-130, on the next lead of the list: the
\* email is not generated, or the send fails, or the email is sent and
\* insert_outreach records it (or raises, which is logged).
LeadOutcomes == {"not_generated", "send_failed", "sent", "sent_insert_raises"}
OutreachLead(r, l, res) ==
    /\ orun[r].pc = "loop"
    /\ l \in orun[r].todo
    /\ \A x \in orun[r].todo : l <= x
    /\ IF res = "sent"
       THEN /\ outreach' = InsertOutreach(outreach, l, "initial")
            /\ orun' = [orun EXCEPT ![r].todo = @ \ {l}, ![r].sent_count = @ + 1]
       ELSE /\ outreach' = outreach
            /\ orun' = [orun EXCEPT ![r].todo = @ \ {l}]
    /\ UNCHANGED <<config, leads, pipeline_runs>>
    /\ OutreachOnly

\* Lines 132-133: the loop is over, run() returns sent_count.
OutreachReturn(r) ==
    /\ orun[r].pc = "loop"
    /\ orun[r].todo = {}
    /\ orun' = [orun EXCEPT ![r].pc = "done"]
    /\ UNCHANGED storeVars
    /\ OutreachOnly

OutreachNext ==
    \/ \E r \in OutreachRuns : \E L \in SUBSET LeadIds : OutreachBegin(r, L)
    \/ \E r \in OutreachRuns : \E l \in LeadIds : \E res \in LeadOutcomes : OutreachLead(r, l, res)
    \/ \E r \in OutreachRuns : OutreachReturn(r)

(***************************************************************************)
(* agents/lead_generation/tools/scheduler.py: main() and its helpers;      *)
(* agents/lead_generation/tools/server.py: run_now                         *)
(***************************************************************************)
Dates == 1..MaxDay
Slots == 0..MaxSlot
\* datetime.isoweekday() of a date of the model.
IsoWeekday(d) == ((FirstWeekday - 1 + d - 1) % 7) + 1

\* A slot of the wall clock is a minute of the day: its hour and minute.
TimeOfDay(slot) == [hour |-> slot \div 60, minute |-> slot % 60]
At(w) == [date |-> w.date, hour |-> w.slot \div 60, minute |-> w.slot % 60]

\* (hour, minute) >= (hour, minute): tuples compare by their first
\* components, then by their second.
HmGEStrict(a, b) == a[1] > b[1] \/ (a[1] = b[1] /\ a[2] > b[2])
HmGE(a, b) == a[1] > b[1] \/ (a[1] = b[1] /\ a[2] >= b[2])

\* _is_after_schedule(now, schedule_time)
IsAfterScheduleStrict(now, schedule_time) ==
    HmGEStrict(<<now.hour, now.minute>>, <<schedule_time.hour, schedule_time.minute>>)
IsAfterSchedule(now, schedule_time) ==
    HmGE(<<now.hour, now.minute>>, <<schedule_time.hour, schedule_time.minute>>)

\* _should_trigger_scheduled_run(now, schedule_time, allowed_days, last_scheduled_run_date)
ShouldTriggerScheduledRun(now, schedule_time, allowed_days, last) ==
    IF IsoWeekday(now.date) \notin allowed_days THEN FALSE
    ELSE IF last = now.date THEN FALSE
    ELSE HmGE(<<now.hour, now.minute>>, <<schedule_time.hour, schedule_time.minute>>)

\* SCHEDULE_DAYS "1-5" and "*".
DayChoices == {1..5, 1..7}

SchedIdle ==
    [pc |-> "boot", startup_ran |-> FALSE, last_scheduled_run_date |-> NullDate,
     now |-> [date |-> 1, slot |-> 0], runs |-> 0, fired |-> <<>>]
NoRequests == [q \in 1..MaxRequests |-> "none"]

\* A step of the two processes leaves the other subsystems alone.
ProcOnly == UNCHANGED <<execVars, celeryVars, storeVars, driverVars, orunVars, collectorVars, rotationVars, leadTableVars, statusVars, triggerVars, parserVars, followupVars, selectVars, discoverVars, resetVars, retryVars, analyzeVars, feedVars>>

\* The local wall clock moves on by one slot.
Tick ==
    /\ \/ /\ wall.slot < MaxSlot
          /\ wall' = [wall EXCEPT !.slot = @ + 1]
       \/ /\ wall.slot = MaxSlot
          /\ wall.date < MaxDay
          /\ wall' = [date |-> wall.date + 1, slot |-> 0]
    /\ UNCHANGED <<schedEnv, sched, shutdown_requested, reqs>>
    /\ ProcOnly

\* _handle_signal: SIGTERM/SIGINT once the handlers are installed (line 221).
Signal ==
    /\ sched.pc \notin {"boot", "stopped"}
    /\ ~shutdown_requested
    /\ shutdown_requested' = TRUE
    /\ UNCHANGED <<schedEnv, sched, wall, reqs>>
    /\ ProcOnly

\* main(), lines 221-242: the handlers, the bookkeeping and the boot policy.
SchedBoot ==
    /\ sched.pc = "boot"
    /\ sched' = [sched EXCEPT
                   !.pc = "loop_top",
                   !.startup_ran = FALSE,
                   !.last_scheduled_run_date =
                       IF /\ ~schedEnv.catchup_on_boot
                          /\ IsoWeekday(wall.date) \in schedEnv.allowed_days
                          /\ IsAfterSchedule(At(wall), TimeOfDay(schedEnv.schedule_time))
                       THEN wall.date ELSE NullDate]
    /\ UNCHANGED <<schedEnv, wall, shutdown_requested, reqs>>
    /\ ProcOnly

\* Lines 243-248: the loop test, now = datetime.now(tz), and the startup run,
\* which _run_pipeline_once starts and waits for.
SchedLoopTopNoTest ==
    /\ sched.pc = "loop_top"
    /\ sched' = IF schedEnv.run_on_startup /\ ~sched.startup_ran
                THEN [sched EXCEPT !.pc = "startup_run", !.now = wall,
                                   !.startup_ran = TRUE, !.runs = @ + 1]
                ELSE [sched EXCEPT !.pc = "check", !.now = wall]
    /\ UNCHANGED <<schedEnv, wall, shutdown_requested, reqs>>
    /\ ProcOnly
SchedLoopTop ==
    /\ sched.pc = "loop_top"
    /\ sched' = IF shutdown_requested
                THEN [sched EXCEPT !.pc = "stopped"]
                ELSE IF schedEnv.run_on_startup /\ ~sched.startup_ran
                THEN [sched EXCEPT !.pc = "startup_run", !.now = wall,
                                   !.startup_ran = TRUE, !.runs = @ + 1]
                ELSE [sched EXCEPT !.pc = "check", !.now = wall]
    /\ UNCHANGED <<schedEnv, wall, shutdown_requested, reqs>>
    /\ ProcOnly

\* _run_pipeline_once returns (lines 116-123): the run ended or raised.
SchedRunEnd ==
    /\ sched.pc \in {"startup_run", "scheduled_run"}
    /\ sched' = [sched EXCEPT !.pc = IF sched.pc = "startup_run" THEN "check" ELSE "sleep"]
    /\ UNCHANGED <<schedEnv, wall, shutdown_requested, reqs>>
    /\ ProcOnly

\* Line 258: the date of the poll is marked before the run.
MarkScheduledRunSkipped(last, now) == last
MarkScheduledRun(last, now) == now.date

\* Lines 250-259: the date is marked, then the daily run starts. fired keeps
\* the polls that triggered the daily run.
SchedCheck ==
    /\ sched.pc = "check"
    /\ sched' = IF ShouldTriggerScheduledRun(At(sched.now),
                                             TimeOfDay(schedEnv.schedule_time),
                                             schedEnv.allowed_days,
                                             sched.last_scheduled_run_date)
                THEN [sched EXCEPT !.pc = "scheduled_run",
                                   !.last_scheduled_run_date =
                                       MarkScheduledRun(@, sched.now),
                                   !.fired = Append(@, sched.now),
                                   !.runs = @ + 1]
                ELSE [sched EXCEPT !.pc = "sleep"]
    /\ UNCHANGED <<schedEnv, wall, shutdown_requested, reqs>>
    /\ ProcOnly

\* Line 261: time.sleep(poll_seconds) is over.
SchedSleep ==
    /\ sched.pc = "sleep"
    /\ sched' = [sched EXCEPT !.pc = "loop_top"]
    /\ UNCHANGED <<schedEnv, wall, shutdown_requested, reqs>>
    /\ ProcOnly

\* POST /api/acem/run-now: run_now is a plain def, which the framework runs
\* on a thread of its pool, one thread per request in flight; the handler
\* calls run_pipeline() and waits for it (server.py lines 536-542).
RunNowBegin(q) ==
    /\ reqs[q] = "none"
    /\ reqs' = [reqs EXCEPT ![q] = "running"]
    /\ UNCHANGED <<schedEnv, sched, wall, shutdown_requested>>
    /\ ProcOnly

\* run_pipeline() returned or raised: 200 or 500 (lines 543-551).
RunNowEnd(q, ok) ==
    /\ reqs[q] = "running"
    /\ reqs' = [reqs EXCEPT ![q] = IF ok THEN "ok" ELSE "error"]
    /\ UNCHANGED <<schedEnv, sched, wall, shutdown_requested>>
    /\ ProcOnly

\* The pipeline runs active in a process.
ActiveRuns(proc) ==
    IF proc = "scheduler"
    THEN (IF sched.pc \in {"startup_run", "scheduled_run"} THEN 1 ELSE 0)
    ELSE Cardinality({q \in 1..MaxRequests : reqs[q] = "running"})

ProcNext ==
    \/ Tick
    \/ Signal
    \/ SchedBoot
    \/ SchedLoopTop
    \/ SchedRunEnd
    \/ SchedCheck
    \/ SchedSleep
    \/ \E q \in 1..MaxRequests : RunNowBegin(q)
    \/ \E q \in 1..MaxRequests : \E ok \in BOOLEAN : RunNowEnd(q, ok)

\* The scheduler process alone: the clock, the signal and the steps of main().
SchedulerNext ==
    \/ Tick
    \/ Signal
    \/ SchedBoot
    \/ SchedLoopTop
    \/ SchedRunEnd
    \/ SchedCheck
    \/ SchedSleep


(***************************************************************************)
(* collector/models/metric.py, collector/routers/metrics.py,               *)
(* collector/database.py                                                   *)
(***************************************************************************)
\* Two POST /metrics requests, numbered in the order they reach the handler.
PostIds == {1, 2}
GetIds == {"g1"}
Times == 1..MaxTime

\* JSON values of a metrics mapping: their Python type and their str().
IntValue   == [type |-> "int", repr |-> "3"]
FloatValue == [type |-> "float", repr |-> "1.5"]
BoolValue  == [type |-> "bool", repr |-> "True"]
StrValue   == [type |-> "str", repr |-> "ok"]
NoneValue  == [type |-> "NoneType", repr |-> "None"]
\* The metrics mappings of the payloads, as sets of <<name, value>>, each
\* with the error field it comes with.
PushedContents ==
    {<<{}, Some("boom")>>,
     <<{<<"leads", IntValue>>}, Some("")>>,
     <<{<<"dry_run", BoolValue>>, <<"note", StrValue>>}, Null>>,
     <<{<<"rate", FloatValue>>, <<"last", NoneValue>>}, Null>>}
PushedMetrics == {c[1] : c \in PushedContents}

\* agent_name as received, and str.strip() of it.
RawNames == {" ", "a", "b "}
Strip(n) == CASE n = " " -> "" [] n = "b " -> "b" [] OTHER -> n

\* The bodies of POST /metrics that parse as a MetricsPushRequest.
PushRequests ==
    {b \in [agent_name : RawNames, metrics : PushedMetrics, started_at : Times,
            error : {Null, Some(""), Some("boom")}] :
        <<b.metrics, b.error>> \in PushedContents}

\* MetricsPushRequest: agent_name_not_empty rejects a blank name and strips
\* the others; finished_at plays no part here and is taken as started_at.
Accepted(body) == Strip(body.agent_name) # ""
Validated(body) ==
    [agent_name |-> Strip(body.agent_name), metrics |-> body.metrics,
     started_at |-> body.started_at, finished_at |-> body.started_at,
     error |-> body.error]

\* Truth value of an optional string: None and "" are false.
Truthy(o) == ~o.null /\ o.text # ""

\* push_metrics line 32
StatusOf(payload) == IF Truthy(payload.error) THEN "failed" ELSE "success"

\* push_metrics lines 34-40
NewRun(id, payload) ==
    [id |-> id, agent_name |-> payload.agent_name, started_at |-> payload.started_at,
     finished_at |-> payload.finished_at, status |-> StatusOf(payload),
     error_message |-> payload.error]

\* _is_numeric: isinstance(value, (int, float)) and not isinstance(value, bool);
\* bool is a subclass of int.
IsInstanceIntOrFloat(v) == v.type \in {"int", "float", "bool"}
IsNumericCountingBool(v) == IsInstanceIntOrFloat(v)
IsNumeric(v) == IsInstanceIntOrFloat(v) /\ v.type # "bool"

\* _to_numeric
ToNumeric(v) == IF IsNumeric(v) THEN Some(v.repr) ELSE Null

\* push_metrics lines 44-52: one AgentMetric per item of the mapping.
NewMetric(run_id, payload, key, value) ==
    [run_id |-> run_id, agent_name |-> payload.agent_name, metric_name |-> key,
     metric_value |-> ToNumeric(value),
     metric_text |-> IF ~IsNumeric(value) THEN Some(value.repr) ELSE Null]
NewMetrics(run_id, payload) ==
    {NewMetric(run_id, payload, e[1], e[2]) : e \in payload.metrics}

\* What the other sessions see of a table after this session's flush: the
\* INSERT is sent inside the open transaction and stays invisible to them.
FlushedAutocommit(committed, rows) == committed \cup rows
Flushed(committed, rows) == committed

PostIdle == [pc |-> "none", payload |-> Validated([agent_name |-> "a", metrics |-> {},
                                                   started_at |-> 1, error |-> Null]),
             run_id |-> 0]
GetIdle == [pc |-> "none", agent_name |-> "", started_after |-> 0, limit |-> 1,
            matching |-> {}, runs |-> {}, result |-> {}]

\* A step of the collector leaves the other subsystems alone.
CollectorOnly ==
    UNCHANGED <<execVars, celeryVars, storeVars, driverVars, orunVars, procVars, rotationVars, leadTableVars, statusVars, triggerVars, parserVars, followupVars, selectVars, discoverVars, resetVars, retryVars, analyzeVars, feedVars>>

\* POST /metrics with a body the request model rejects: 422, the handler
\* is not entered.
PushMetricsRejected(q, body) ==
    /\ post[q].pc = "none"
    /\ \A p \in PostIds : p < q => post[p].pc # "none"
    /\ ~Accepted(body)
    /\ post' = [post EXCEPT ![q].pc = "rejected"]
    /\ UNCHANGED <<agent_runs, agent_metrics, run_seq, get>>
    /\ CollectorOnly

\* push_metrics lines 32-42: the run is added and flushed, which draws its id
\* from the sequence; or the flush raises and the session is closed.
PushMetricsFlush(q, body, ok) ==
    /\ post[q].pc = "none"
    /\ \A p \in PostIds : p < q => post[p].pc # "none"
    /\ Accepted(body)
    /\ IF ok
       THEN /\ run_seq' = run_seq + 1
            /\ post' = [post EXCEPT ![q] = [pc |-> "flushed", payload |-> Validated(body),
                                            run_id |-> run_seq + 1]]
            /\ agent_runs' = Flushed(agent_runs, {NewRun(run_seq + 1, Validated(body))})
       ELSE /\ run_seq' = run_seq
            /\ post' = [post EXCEPT ![q].pc = "failed"]
            /\ agent_runs' = agent_runs
    /\ UNCHANGED <<agent_metrics, get>>
    /\ CollectorOnly

\* push_metrics lines 44-60: the metrics are added and the transaction is
\* committed (201); or something raises, get_db closes the session and the
\* transaction is rolled back (500).
PushMetricsCommit(q, ok) ==
    /\ post[q].pc = "flushed"
    /\ IF ok
       THEN /\ agent_runs' = agent_runs \cup {NewRun(post[q].run_id, post[q].payload)}
            /\ agent_metrics' = agent_metrics \cup NewMetrics(post[q].run_id, post[q].payload)
            /\ post' = [post EXCEPT ![q].pc = "done"]
       ELSE /\ UNCHANGED <<agent_runs, agent_metrics>>
            /\ post' = [post EXCEPT ![q].pc = "failed", ![q].payload = PostIdle.payload]
    /\ UNCHANGED <<run_seq, get>>
    /\ CollectorOnly

\* get_metrics lines 75-84: WHERE agent_name = ? AND started_at > ?, each
\* filter only when its parameter is truthy.
MatchingRuns(rows, agent_name, started_after) ==
    {r \in rows : /\ agent_name # "" => r.agent_name = agent_name
                  /\ started_after # 0 => r.started_at > started_after}

\* get_metrics lines 75-87: the first SELECT, ORDER BY started_at ASC LIMIT ?
StartedAt(r) == r.started_at
SelectRuns(rows, agent_name, started_after, limit) ==
    TopK(MatchingRuns(rows, agent_name, started_after), StartedAt, limit)

\* _run_to_summary: metric_value wins, as float(...); else metric_text.
SummaryValue(m) ==
    IF ~m.metric_value.null
    THEN [type |-> "float", repr |-> m.metric_value.text]
    ELSE IF m.metric_text.null THEN NoneValue
    ELSE [type |-> "str", repr |-> m.metric_text.text]
RunToSummary(run, metric_rows) ==
    [run_id |-> run.id, agent_name |-> run.agent_name, started_at |-> run.started_at,
     finished_at |-> run.finished_at, status |-> run.status,
     error_message |-> run.error_message,
     metrics |-> {<<m.metric_name, SummaryValue(m)>> : m \in metric_rows}]

\* GET /metrics, the SELECT on agent_runs. matching keeps the rows that
\* matched the filters when it ran.
GetMetricsSelect(g, agent_name, started_after, limit) ==
    /\ get[g].pc = "none"
    /\ \E S \in SelectRuns(agent_runs, agent_name, started_after, limit) :
         get' = [get EXCEPT ![g] =
                   [pc |-> "runs_loaded", agent_name |-> agent_name,
                    started_after |-> started_after, limit |-> limit,
                    matching |-> MatchingRuns(agent_runs, agent_name, started_after),
                    runs |-> S, result |-> {}]]
    /\ UNCHANGED <<agent_runs, agent_metrics, run_seq, post>>
    /\ CollectorOnly

\* GET /metrics, the second SELECT (selectinload of AgentRun.metrics) and the
\* summaries, lines 86-88.
GetMetricsLoad(g) ==
    /\ get[g].pc = "runs_loaded"
    /\ get' = [get EXCEPT ![g].pc = "done",
                          ![g].result =
                              {RunToSummary(r, {m \in agent_metrics : m.run_id = r.id}) :
                                  r \in get[g].runs}]
    /\ UNCHANGED <<agent_runs, agent_metrics, run_seq, post>>
    /\ CollectorOnly

CollectorNext ==
    \/ \E q \in PostIds : \E body \in PushRequests : PushMetricsRejected(q, body)
    \/ \E q \in PostIds : \E body \in PushRequests : \E ok \in BOOLEAN :
           PushMetricsFlush(q, body, ok)
    \/ \E q \in PostIds : \E ok \in BOOLEAN : PushMetricsCommit(q, ok)
    \/ \E g \in GetIds : \E n \in {"", "a"} : \E t \in 0..MaxTime :
       \E limit \in 1..MaxLimit : GetMetricsSelect(g, n, t, limit)
    \/ \E g \in GetIds : GetMetricsLoad(g)

(***************************************************************************)
(* db_manager.py: city rotation; discover_leads.py: run()                  *)
(***************************************************************************)
Cities == 1..NumCities
\* init_db: the rotation is seeded with last_searched NULL, search_count 0.
SeededRotation == [c \in Cities |-> [last_searched |-> NullDate, search_count |-> 0]]

\* get_next_city: ORDER BY (last_searched, NULL as '1900-01-01') ASC,
\* search_count ASC LIMIT 1. Rows equal on both keys come in an order the
\* database chooses: any of them may be the one returned.
SortsBefore(a, b) ==
    \/ a.last_searched < b.last_searched
    \/ a.last_searched = b.last_searched /\ a.search_count < b.search_count
GetNextCity(table) ==
    {c \in DOMAIN table : \A d \in DOMAIN table : ~SortsBefore(table[d], table[c])}

\* update_city_searched: last_searched = today, search_count + 1.
UpdateCitySearchedCountOnly(table, c, date) ==
    [table EXCEPT ![c] = [last_searched |-> @.last_searched, search_count |-> @.search_count + 1]]
UpdateCitySearched(table, c, date) ==
    [table EXCEPT ![c] = [last_searched |-> date, search_count |-> @.search_count + 1]]

max_city_attempts == 10
DiscIdle == [pc |-> "idle", attempted |-> <<>>]
Attempted(frame) == {frame.attempted[i] : i \in 1..Len(frame.attempted)}

\* A step of the discovery leaves the other subsystems alone.
RotationOnly ==
    UNCHANGED <<execVars, celeryVars, storeVars, driverVars, orunVars, procVars, collectorVars, leadTableVars, statusVars, triggerVars, parserVars, followupVars, selectVars, discoverVars, resetVars, retryVars, analyzeVars, feedVars>>

\* date.today() moves on.
NextDay ==
    /\ today < MaxDay
    /\ today' = today + 1
    /\ UNCHANGED <<city_rotation, disc, picks>>
    /\ RotationOnly

\* discover_leads.run() is entered (lines 30-36). The model follows the runs
\* that begin before the first reset of the rotation.
DiscoverBegin ==
    /\ disc.pc # "loop"
    /\ Len(picks) < MaxPicks
    /\ reset.calls = 0
    /\ disc' = [pc |-> "loop", attempted |-> <<>>]
    /\ UNCHANGED <<city_rotation, today, picks>>
    /\ RotationOnly

\* One iteration of the loop, lines 38-68: the next city is read; a city
\* this run tried already ends the run; else the city is searched, its leads
\* inserted and the city marked. reached: the run has its LEADS_PER_DAY leads.
DiscoverCity(c, reached) ==
    /\ disc.pc = "loop"
    /\ Len(disc.attempted) < max_city_attempts
    /\ c \in GetNextCity(city_rotation)
    /\ IF c \in Attempted(disc)
       THEN /\ disc' = DiscIdle
            /\ UNCHANGED <<city_rotation, picks>>
       ELSE /\ Len(picks) < MaxPicks
            /\ city_rotation' = UpdateCitySearched(city_rotation, c, today)
            /\ picks' = Append(picks, c)
            /\ disc' = IF reached \/ Len(disc.attempted) + 1 >= max_city_attempts
                       THEN DiscIdle
                       ELSE [disc EXCEPT !.attempted = Append(@, c)]
    /\ UNCHANGED today
    /\ RotationOnly

\* search_by_location raises: run() is left with the city unmarked.
DiscoverAbort ==
    /\ disc.pc = "loop"
    /\ disc' = [pc |-> "raised", attempted |-> <<>>]
    /\ UNCHANGED <<city_rotation, today, picks>>
    /\ RotationOnly

RotationNext ==
    \/ NextDay
    \/ DiscoverBegin
    \/ \E c \in Cities : \E reached \in BOOLEAN : DiscoverCity(c, reached)
    \/ DiscoverAbort

(***************************************************************************)
(* db_manager.py: lead_exists, insert_lead, update_lead_enrichment,        *)
(* get_leads_needing_email_enrichment; apollo_enrich.py: run()             *)
(***************************************************************************)
Domains == {"a.com", "b.com"}
Address == "ana@a.com"

\* The dictionaries apollo_search hands to insert_lead.
LeadData ==
    [domain : Domains, website : BOOLEAN, email : {Null, Some(Address)},
     email_source : {Null, Some("apollo")}]

\* lead_exists: SELECT id FROM leads WHERE domain = ?
LeadExists(table, domain) == \E i \in 1..Len(table) : table[i].domain = domain

\* insert_lead: the INSERT, with status 'new'; domain is UNIQUE, and the
\* integrity error of a duplicate leaves the table as it was. attempted and
\* found keep whether apollo_enrich tried the lead and whether it got an email.
NewLead(data) ==
    [domain |-> data.domain, website |-> data.website, email |-> data.email,
     email_source |-> data.email_source, status |-> "new",
     attempted |-> FALSE, found |-> FALSE]
InsertLeadNoUnique(table, data) == Append(table, NewLead(data))
InsertLeadTable(table, data) ==
    IF LeadExists(table, data.domain) THEN table ELSE Append(table, NewLead(data))
\* What insert_lead returns: the new id, or None (0) for a duplicate.
InsertLeadReturn(before, after) == IF Len(after) > Len(before) THEN Len(after) ELSE 0

NoInsert == [called |-> FALSE, existed |-> FALSE, returned |-> 0, unchanged |-> TRUE]

\* get_leads_needing_email_enrichment: WHERE email IS NULL AND website IS NOT
\* NULL AND status = 'new' ORDER BY discovered_date DESC LIMIT ?; the leads
\* here share their discovered_date, so any of them may fill the limit.
NeedingEmail(table) ==
    {i \in 1..Len(table) :
        table[i].email.null /\ table[i].website /\ table[i].status = "new"}
GetLeadsNeedingEmailEnrichment(table, limit) ==
    {S \in SUBSET NeedingEmail(table) :
        Cardinality(S) = Min(limit, Cardinality(NeedingEmail(table)))}

\* The answers of POST people/match as enrich_person returns them: no match
\* ({}), or a person whose email is absent, empty or an address.
NoMatch == [match |-> FALSE, email |-> Null]
Person(email) == [match |-> TRUE, email |-> email]
EnrichmentData == {NoMatch, Person(Null), Person(Some("")), Person(Some(Address))}

\* apollo_enrich.run lines 212-227: the update built from the answer.
UpdateData(d) ==
    [email |-> d.email,
     email_source |-> IF Truthy(d.email) THEN Some("apollo") ELSE Some("none")]

\* update_lead_enrichment: each key that is present and not None is SET.
UpdateLeadEnrichment(row, data) ==
    [row EXCEPT !.email = IF data.email.null THEN @ ELSE data.email,
                !.email_source = IF data.email_source.null THEN @ ELSE data.email_source]

\* A step on the leads table leaves the other subsystems alone.
LeadTableOnly ==
    UNCHANGED <<execVars, celeryVars, storeVars, driverVars, orunVars, procVars,
                collectorVars, rotationVars, statusVars, triggerVars, parserVars, followupVars, selectVars, discoverVars, resetVars, retryVars, analyzeVars, feedVars>>

\* discover_leads.run lines 56-59 / insert_leads_batch: insert_lead(lead).
InsertLead(data) ==
    /\ lead_table' = InsertLeadTable(lead_table, data)
    /\ ins' = [called |-> TRUE, existed |-> LeadExists(lead_table, data.domain),
               returned |-> InsertLeadReturn(lead_table, lead_table'),
               unchanged |-> lead_table' = lead_table]
    /\ LeadTableOnly

\* apollo_enrich.run, one lead of the list it read: lines 198-233.
ApolloEnrichLead(l, d) ==
    /\ \E S \in GetLeadsNeedingEmailEnrichment(lead_table, LEADS_PER_DAY) : l \in S
    /\ lead_table' =
          [lead_table EXCEPT ![l] =
              [(IF d.match THEN UpdateLeadEnrichment(@, UpdateData(d)) ELSE @)
                  EXCEPT !.attempted = TRUE, !.found = @ \/ Truthy(d.email)]]
    /\ UNCHANGED ins
    /\ LeadTableOnly

\* mark_leads_sent: the lead went out in the report.
LeadSent(l) ==
    /\ l \in 1..Len(lead_table)
    /\ lead_table[l].status = "new"
    /\ lead_table' = [lead_table EXCEPT ![l].status = "sent"]
    /\ UNCHANGED ins
    /\ LeadTableOnly

LeadTableNext ==
    \/ \E data \in LeadData : InsertLead(data)
    \/ \E l \in 1..Cardinality(Domains) : \E d \in EnrichmentData : ApolloEnrichLead(l, d)
    \/ \E l \in 1..Cardinality(Domains) : LeadSent(l)

(***************************************************************************)
(* server.py: agent_status, _build_status_rows, _get_pipeline_runs,        *)
(* _build_snapshot_rows; db_manager.py: log_pipeline_run (run_date)        *)
(***************************************************************************)
\* Times of one hour: a run_date has whole seconds (log_pipeline_run formats
\* it with %S); updated_after may carry milliseconds.
RunDates == [minute : 0..MaxMinute, second : 0..MaxSecond]
Instants == [minute : 0..(MaxMinute + 1), second : 0..MaxSecond, milli : {0, 500}]
Millis(t) == (t.minute * 60 + t.second) * 1000
InstantMillis(t) == Millis(t) + t.milli
\* datetime.now(timezone.utc) when the request is served: after every run.
StatusNow == [minute |-> MaxMinute, second |-> MaxSecond, milli |-> 500]

\* strftime("%Y-%m-%d %H:%M:%S"): the fraction of the second is dropped.
Strftime(t) == [minute |-> t.minute, second |-> t.second]
\* Strings of that format compare as their times do.
StringGE(a, b) == Millis(a) >= Millis(b)

\* _get_pipeline_runs: WHERE run_date >= ? ORDER BY run_date ASC
GetPipelineRuns(table, updated_after) ==
    SelectSeq(table, LAMBDA d : StringGE(d, Strftime(updated_after)))

\* _build_status_rows lines 340-359: the row of one run.
BucketStart(dt) == [minute |-> (dt.minute \div 10) * 10, second |-> 0]
StatusRow(dt) ==
    [kind |-> "run", bucket_start |-> BucketStart(dt), runs_total |-> 1, updated_at |-> dt]

\* _build_snapshot_rows: None when now < updated_after, else the snapshot.
SnapshotRow == [kind |-> "snapshot", bucket_start |-> BucketStart(StatusNow),
                runs_total |-> 1, updated_at |-> Strftime(StatusNow)]
BuildSnapshotRows(updated_after) ==
    IF InstantMillis(StatusNow) < InstantMillis(updated_after) THEN <<>> ELSE <<SnapshotRow>>

\* _build_status_rows
BuildStatusRows(table, updated_after) ==
    LET rows == GetPipelineRuns(table, updated_after)
        output == [i \in 1..Len(rows) |-> StatusRow(rows[i])]
    IN IF output # <<>> THEN output ELSE BuildSnapshotRows(updated_after)

\* The contents of pipeline_runs.run_date: up to MaxRuns runs, in time order.
RunDateTables ==
    {t \in UNION {[1..n -> RunDates] : n \in 0..MaxRuns} :
        \A i \in 1..Len(t) : \A j \in 1..Len(t) : i < j => Millis(t[i]) <= Millis(t[j])}

NoStatusRequest == [pc |-> "none", updated_after |-> StatusNow, result |-> <<>>]

\* GET /api/acem/agent-status?updated_after=...
AgentStatus(updated_after) ==
    /\ areq.pc = "none"
    /\ areq' = [pc |-> "done", updated_after |-> updated_after,
                result |-> BuildStatusRows(run_dates, updated_after)]
    /\ UNCHANGED run_dates
    /\ UNCHANGED <<execVars, celeryVars, storeVars, driverVars, orunVars, procVars,
                   collectorVars, rotationVars, leadTableVars, triggerVars, parserVars, followupVars, selectVars, discoverVars, resetVars, retryVars, analyzeVars, feedVars>>

StatusNext == \E updated_after \in Instants : AgentStatus(updated_after)

(***************************************************************************)
(* scheduler.py: _should_trigger_scheduled_run as a function               *)
(***************************************************************************)
\* Hours and minutes on both sides of a schedule time.
TriggerHours == {11, 12}
TriggerMinutes == {0, 30}
TriggerNows == [date : Dates, hour : TriggerHours, minute : TriggerMinutes]
TriggerTimes == [hour : TriggerHours, minute : TriggerMinutes]
NoTrigger ==
    [pc |-> "none", now |-> [date |-> 1, hour |-> 11, minute |-> 0],
     schedule_time |-> [hour |-> 11, minute |-> 0], allowed_days |-> 1..5,
     last |-> NullDate, result |-> FALSE]

\* The call returns.
TriggerReturn ==
    /\ trig.pc = "called"
    /\ trig' = [trig EXCEPT !.pc = "returned",
                            !.result = ShouldTriggerScheduledRun(trig.now, trig.schedule_time,
                                                                 trig.allowed_days, trig.last)]
    /\ UNCHANGED <<execVars, celeryVars, storeVars, driverVars, orunVars, procVars,
                   collectorVars, rotationVars, leadTableVars, statusVars, parserVars, followupVars, selectVars, discoverVars, resetVars, retryVars, analyzeVars, feedVars>>

TriggerNext == TriggerReturn

(***************************************************************************)
(* scheduler.py: _expand_day_range and _parse_schedule_days                *)
(***************************************************************************)
\* A text is a sequence of characters; these are the characters of the
\* SCHEDULE_DAYS texts of the model.
Chars == {"*", ",", "-", " ", "1", "5", "8"}
Texts == UNION {[1..n -> Chars] : n \in 0..MaxChars}
DecimalDigits == {"0", "1", "2", "3", "4", "5", "6", "7", "8", "9"}
DigitValue(c) ==
    CASE c = "0" -> 0 [] c = "1" -> 1 [] c = "2" -> 2 [] c = "3" -> 3 [] c = "4" -> 4
      [] c = "5" -> 5 [] c = "6" -> 6 [] c = "7" -> 7 [] c = "8" -> 8 [] c = "9" -> 9

\* str.strip()
RECURSIVE LStrip(_)
LStrip(s) == IF s # <<>> /\ Head(s) = " " THEN LStrip(Tail(s)) ELSE s
RECURSIVE RStrip(_)
RStrip(s) == IF s # <<>> /\ s[Len(s)] = " " THEN RStrip(SubSeq(s, 1, Len(s) - 1)) ELSE s
StrStrip(s) == RStrip(LStrip(s))

\* sep in s, and s.split(sep, 1) of a text that holds sep
Contains(s, sep) == \E i \in 1..Len(s) : s[i] = sep
FirstIndex(s, sep) == CHOOSE i \in 1..Len(s) : s[i] = sep /\ \A j \in 1..(i - 1) : s[j] # sep
SplitOnce(s, sep) ==
    <<SubSeq(s, 1, FirstIndex(s, sep) - 1), SubSeq(s, FirstIndex(s, sep) + 1, Len(s))>>
\* s.split(sep)
RECURSIVE Split(_, _)
Split(s, sep) ==
    IF Contains(s, sep)
    THEN <<SplitOnce(s, sep)[1]>> \o Split(SplitOnce(s, sep)[2], sep)
    ELSE <<s>>

\* int(text): surrounding whitespace and a sign are accepted, then decimal
\* digits only; anything else is a ValueError.
RECURSIVE DigitsValue(_)
DigitsValue(s) ==
    IF s = <<>> THEN 0
    ELSE 10 * DigitsValue(SubSeq(s, 1, Len(s) - 1)) + DigitValue(s[Len(s)])
IsDigits(s) == s # <<>> /\ \A i \in 1..Len(s) : s[i] \in DecimalDigits
IntError == [ok |-> FALSE, n |-> 0]
ParseInt(text) ==
    LET t == StrStrip(text)
    IN  IF IsDigits(t) THEN [ok |-> TRUE, n |-> DigitsValue(t)]
        ELSE IF t # <<>> /\ Head(t) = "-" /\ IsDigits(Tail(t))
             THEN [ok |-> TRUE, n |-> 0 - DigitsValue(Tail(t))]
        ELSE IntError

\* The two ways the parser ends.
DaysRaise(msg) == [raised |-> TRUE, error |-> msg, days |-> {}]
DaysReturn(d) == [raised |-> FALSE, error |-> "", days |-> d]

\* _expand_day_range(start, end)
ExpandDayRangeNoWrap(start, end) == start..end
ExpandDayRange(start, end) ==
    IF start <= end THEN start..end ELSE (start..7) \cup (1..end)

\* One iteration of the loop over raw.split(","): the days the part adds, or
\* the ValueError it raises.
PartDays(part) ==
    LET token == StrStrip(part)
    IN  IF token = <<>> THEN DaysReturn({})
        ELSE IF Contains(token, "-")
        THEN LET start == ParseInt(SplitOnce(token, "-")[1])
                 end == ParseInt(SplitOnce(token, "-")[2])
             IN  IF ~start.ok \/ ~end.ok THEN DaysRaise("invalid literal for int()")
                 ELSE IF ~(1 <= start.n /\ start.n <= 7 /\ 1 <= end.n /\ end.n <= 7)
                 THEN DaysRaise("Invalid day range")
                 ELSE DaysReturn(ExpandDayRange(start.n, end.n))
        ELSE LET day == ParseInt(token)
             IN  IF ~day.ok THEN DaysRaise("invalid literal for int()")
                 ELSE IF ~(1 <= day.n /\ day.n <= 7) THEN DaysRaise("Invalid day")
                 ELSE DaysReturn({day.n})

RECURSIVE ParseParts(_, _)
ParseParts(parts, allowed) ==
    IF parts = <<>> THEN DaysReturn(allowed)
    ELSE IF PartDays(Head(parts)).raised THEN PartDays(Head(parts))
    ELSE ParseParts(Tail(parts), allowed \cup PartDays(Head(parts)).days)

\* _parse_schedule_days(value)
ParseScheduleDays(value) ==
    LET raw == StrStrip(value)
    IN  IF raw = <<"*">> THEN DaysReturn(1..7)
        ELSE LET r == ParseParts(Split(raw, ","), {})
             IN  IF r.raised THEN r
                 ELSE IF r.days = {} THEN DaysRaise("SCHEDULE_DAYS resolved to an empty set.")
                 ELSE r

NoParse == [pc |-> "none", value |-> <<>>, result |-> DaysReturn({})]

\* The call returns or raises.
ParseReturn ==
    /\ parse.pc = "called"
    /\ parse' = [parse EXCEPT !.pc = "returned", !.result = ParseScheduleDays(parse.value)]
    /\ UNCHANGED <<execVars, celeryVars, storeVars, driverVars, orunVars, procVars,
                   collectorVars, rotationVars, leadTableVars, statusVars, triggerVars, followupVars, selectVars, discoverVars, resetVars, retryVars, analyzeVars, feedVars>>

ParserNext == ParseReturn

(***************************************************************************)
(* db_manager.py: insert_outreach, get_outreach_needing_followup,          *)
(* mark_followup_sent, mark_outreach_replied; send_followups.py: run()     *)
(***************************************************************************)
FOLLOWUP_DAYS == 3
FollowupLeads == 1..NumFollowupLeads
OutreachIds == 1..Len(outreach_table)

\* insert_outreach: the row gets the next id, sent_date = now, status 'sent'
\* and the column defaults. origin is not a column: it names the initial row
\* whose followup this row is (0 for an initial row), seen is that row as the
\* run selected it and selected_on the date of the selection.
OutreachRow(lead_id, outreach_type, sent_date, origin, seen, selected_on) ==
    [lead_id |-> lead_id, outreach_type |-> outreach_type, sent_date |-> sent_date,
     replied |-> FALSE, followup_sent |-> FALSE, status |-> "sent",
     origin |-> origin, seen |-> seen, selected_on |-> selected_on]
NothingSeen == [replied |-> FALSE, followup_sent |-> FALSE, sent_date |-> 0]
SeenOf(row) ==
    [replied |-> row.replied, followup_sent |-> row.followup_sent, sent_date |-> row.sent_date]

\* The WHERE clause of get_outreach_needing_followup.
NeedsFollowupAnyAge(row, date) ==
    /\ row.outreach_type = "initial"
    /\ ~row.replied
    /\ ~row.followup_sent
    /\ row.status = "sent"
NeedsFollowup(row, date) ==
    /\ row.outreach_type = "initial"
    /\ ~row.replied
    /\ ~row.followup_sent
    /\ row.status = "sent"
    /\ row.sent_date <= date - FOLLOWUP_DAYS
\* get_outreach_needing_followup(): the ids of the rows returned.
GetOutreachNeedingFollowup(table, date) ==
    {o \in 1..Len(table) : NeedsFollowup(table[o], date)}

\* mark_followup_sent(outreach_id)
MarkFollowupSent(table, o) ==
    IF o \in 1..Len(table) THEN [table EXCEPT ![o].followup_sent = TRUE] ELSE table
\* mark_outreach_replied(outreach_id)
MarkOutreachRepliedRow(table, o) ==
    IF o \in 1..Len(table)
    THEN [table EXCEPT ![o].replied = TRUE, ![o].status = "replied"]
    ELSE table

FollowupIdle == [pc |-> "idle", list |-> {}, seen |-> <<>>, selected_on |-> 0, cur |-> 0]

FollowupOnly ==
    UNCHANGED <<execVars, celeryVars, storeVars, driverVars, orunVars, procVars,
                collectorVars, rotationVars, leadTableVars, statusVars, triggerVars,
                parserVars, selectVars, discoverVars, resetVars, retryVars, analyzeVars, feedVars>>

\* A day passes.
FollowupNextDay ==
    /\ current_date < MaxDate
    /\ current_date' = current_date + 1
    /\ UNCHANGED <<outreach_table, frun>>
    /\ FollowupOnly

\* send_outreach.run() records the initial email of a lead that has none.
InitialSent(l) ==
    /\ Len(outreach_table) < MaxOutreachRows
    /\ \A o \in OutreachIds :
           ~(outreach_table[o].lead_id = l /\ outreach_table[o].outreach_type = "initial")
    /\ outreach_table' = Append(outreach_table,
                                OutreachRow(l, "initial", current_date, 0, NothingSeen, 0))
    /\ UNCHANGED <<current_date, frun>>
    /\ FollowupOnly

\* mark_outreach_replied(o), called by a webhook or by hand.
MarkOutreachReplied(o) ==
    /\ o \in OutreachIds
    /\ ~outreach_table[o].replied
    /\ outreach_table' = MarkOutreachRepliedRow(outreach_table, o)
    /\ UNCHANGED <<current_date, frun>>
    /\ FollowupOnly

\* run(), lines 28-40: without the API key it returns 0; otherwise it reads
\* the list once and returns 0 when the list is empty.
FollowupBegin(key) ==
    /\ frun.pc \in {"idle", "done"}
    /\ frun' = IF ~key \/ GetOutreachNeedingFollowup(outreach_table, current_date) = {}
               THEN [FollowupIdle EXCEPT !.pc = "done"]
               ELSE [pc |-> "loop",
                     list |-> GetOutreachNeedingFollowup(outreach_table, current_date),
                     seen |-> [o \in OutreachIds |-> SeenOf(outreach_table[o])],
                     selected_on |-> current_date, cur |-> 0]
    /\ UNCHANGED <<outreach_table, current_date>>
    /\ FollowupOnly

\* ORDER BY o.sent_date ASC: the rows of the list that may come next.
NextInList(list, table) ==
    {o \in list : \A p \in list : table[o].sent_date <= table[p].sent_date}

FollowupOutcomes == {"not generated", "not sent", "sent"}
\* One iteration up to insert_outreach (lines 42-95): the email is not
\* generated (continue), the send fails or raises (logged), or the send
\* succeeds and the followup row is inserted and committed.
FollowupSend(res) ==
    /\ frun.pc = "loop"
    /\ frun.list # {}
    /\ \E o \in NextInList(frun.list, outreach_table) :
           IF res = "sent" /\ Len(outreach_table) < MaxOutreachRows
           THEN /\ outreach_table' =
                       Append(outreach_table,
                              OutreachRow(outreach_table[o].lead_id, "followup", current_date,
                                          o, frun.seen[o], frun.selected_on))
                /\ frun' = [frun EXCEPT !.pc = "inserted", !.cur = o]
           ELSE /\ res # "sent"
                /\ frun' = [frun EXCEPT !.list = frun.list \ {o}]
                /\ UNCHANGED outreach_table
    /\ UNCHANGED current_date
    /\ FollowupOnly

\* mark_followup_sent(outreach_id, followup_id), lines 98-106: it commits, or
\* it raises and the except clause of the send logs the error; either way the
\* loop goes on.
FollowupMark(ok) ==
    /\ frun.pc = "inserted"
    /\ outreach_table' = IF ok THEN MarkFollowupSent(outreach_table, frun.cur)
                         ELSE outreach_table
    /\ frun' = [frun EXCEPT !.pc = "loop", !.list = frun.list \ {frun.cur}, !.cur = 0]
    /\ UNCHANGED current_date
    /\ FollowupOnly

\* run() returns sent_count.
FollowupReturn ==
    /\ frun.pc = "loop"
    /\ frun.list = {}
    /\ frun' = [FollowupIdle EXCEPT !.pc = "done"]
    /\ UNCHANGED <<outreach_table, current_date>>
    /\ FollowupOnly

FollowupNext ==
    \/ FollowupNextDay
    \/ \E l \in FollowupLeads : InitialSent(l)
    \/ \E o \in 1..MaxOutreachRows : MarkOutreachReplied(o)
    \/ \E key \in BOOLEAN : FollowupBegin(key)
    \/ \E res \in FollowupOutcomes : FollowupSend(res)
    \/ \E ok \in BOOLEAN : FollowupMark(ok)
    \/ FollowupReturn

(***************************************************************************)
(* db_manager.py: get_unsent_leads as a function of the table              *)
(***************************************************************************)
SelectLeadIds == 1..NumSelectLeads
\* The rows of the table: unsent leads with an AI summary, of every priority
\* class and discovery date; an unsent lead without a summary; a sent lead.
SelectRows ==
    {LeadRow(e, p, TRUE, NullDate, d) : e \in BOOLEAN, p \in BOOLEAN, d \in {Yesterday, Today}}
        \cup {LeadRow(TRUE, TRUE, FALSE, NullDate, Today), LeadRow(TRUE, TRUE, TRUE, Yesterday, Yesterday)}
NoSelect == [pc |-> "none", table |-> <<>>, limit |-> 0, rows |-> {}]

\* The call returns the rows fetched.
SelectReturn ==
    /\ sel.pc = "called"
    /\ \E S \in GetUnsentLeads(sel.table, sel.limit) :
           sel' = [sel EXCEPT !.pc = "returned", !.rows = S]
    /\ UNCHANGED <<execVars, celeryVars, storeVars, driverVars, orunVars, procVars,
                   collectorVars, rotationVars, leadTableVars, statusVars, triggerVars,
                   parserVars, followupVars, discoverVars, resetVars, retryVars, analyzeVars, feedVars>>

SelectNext == SelectReturn

(***************************************************************************)
(* discover_leads.py: run(), step by step                                  *)
(***************************************************************************)
DiscoverCities == 1..NumDiscoverCities
\* A rotation searched one city a day: city c on date c, today the day after.
RotationByDay == [c \in DiscoverCities |-> [last_searched |-> c, search_count |-> 1]]
\* What search_by_location returns: a list of leads, domains may repeat.
SearchLead(domain) ==
    [domain |-> domain, website |-> TRUE, email |-> Null, email_source |-> Null]
SearchResults == UNION {[1..n -> {SearchLead(d) : d \in Domains}] : n \in 0..MaxResults}

\* seen and added are not variables of run(): the cities handed to
\* search_by_location, and the rows this run added to leads.
DiscoverIdle ==
    [pc |-> "idle", inserted |-> 0, attempted |-> <<>>, city |-> 0, results |-> <<>>,
     returned |-> 0, seen |-> <<>>, added |-> 0]

DiscoverOnly ==
    UNCHANGED <<execVars, celeryVars, storeVars, driverVars, orunVars, procVars,
                collectorVars, statusVars, triggerVars, parserVars, followupVars,
                selectVars, today, disc, picks, ins, resetVars, retryVars, analyzeVars, feedVars>>

\* Lines 30-36: without the API key run() returns 0.
DiscoverRunBegin(key) ==
    /\ drun.pc = "idle"
    /\ drun' = IF key THEN [drun EXCEPT !.pc = "while"]
               ELSE [drun EXCEPT !.pc = "done", !.returned = 0]
    /\ UNCHANGED <<city_rotation, lead_table>>
    /\ DiscoverOnly

\* The condition of the while loop, line 38.
DiscoverContinuesAnyAttempts(frame) == frame.inserted < LEADS_PER_DAY
DiscoverContinues(frame) ==
    frame.inserted < LEADS_PER_DAY /\ Len(frame.attempted) < max_city_attempts

\* Lines 38-47: the loop ends (run() returns inserted), or the next city is
\* read; no city, or a city this run attempted already, ends the loop.
DiscoverPick ==
    /\ drun.pc = "while"
    /\ IF ~DiscoverContinues(drun) \/ GetNextCity(city_rotation) = {}
       THEN drun' = [drun EXCEPT !.pc = "done", !.returned = drun.inserted]
       ELSE \E c \in GetNextCity(city_rotation) :
                drun' = IF c \in Attempted(drun)
                        THEN [drun EXCEPT !.pc = "done", !.returned = drun.inserted]
                        ELSE [drun EXCEPT !.pc = "search", !.city = c]
    /\ UNCHANGED <<city_rotation, lead_table>>
    /\ DiscoverOnly

\* Lines 49-53: search_by_location returns its list.
DiscoverSearch(results) ==
    /\ drun.pc = "search"
    /\ Len(results) <= (LEADS_PER_DAY - drun.inserted) + 10
    /\ drun' = [drun EXCEPT !.pc = "for", !.results = results,
                            !.seen = Append(@, drun.city)]
    /\ UNCHANGED <<city_rotation, lead_table>>
    /\ DiscoverOnly

\* search_by_location raises: run() is left, the city unmarked.
DiscoverSearchRaises ==
    /\ drun.pc = "search"
    /\ drun' = [drun EXCEPT !.pc = "raised", !.seen = Append(@, drun.city)]
    /\ UNCHANGED <<city_rotation, lead_table>>
    /\ DiscoverOnly

\* Lines 55-62, one lead of the list: a lead whose domain exists is passed
\* over; else insert_lead, and a result that is not None is counted; the for
\* loop is left when inserted reaches LEADS_PER_DAY.
DiscoverInsert ==
    /\ drun.pc = "for"
    /\ drun.results # <<>>
    /\ LET lead == Head(drun.results)
           table == IF LeadExists(lead_table, lead.domain) THEN lead_table
                    ELSE InsertLeadTable(lead_table, lead)
           counted == ~LeadExists(lead_table, lead.domain)
                          /\ InsertLeadReturn(lead_table, table) # 0
           inserted == IF counted THEN drun.inserted + 1 ELSE drun.inserted
       IN  /\ lead_table' = table
           /\ drun' = [drun EXCEPT !.inserted = inserted,
                                   !.added = @ + (Len(table) - Len(lead_table)),
                                   !.results = IF counted /\ inserted >= LEADS_PER_DAY
                                               THEN <<>> ELSE Tail(@),
                                   !.pc = IF counted /\ inserted >= LEADS_PER_DAY
                                          THEN "mark" ELSE "for"]
    /\ UNCHANGED city_rotation
    /\ DiscoverOnly

\* The list is exhausted.
DiscoverListEnd ==
    /\ drun.pc = "for"
    /\ drun.results = <<>>
    /\ drun' = [drun EXCEPT !.pc = "mark"]
    /\ UNCHANGED <<city_rotation, lead_table>>
    /\ DiscoverOnly

\* Lines 64-66: update_city_searched and attempted_cities.append.
DiscoverMark ==
    /\ drun.pc = "mark"
    /\ city_rotation' = UpdateCitySearched(city_rotation, drun.city, today)
    /\ drun' = [drun EXCEPT !.pc = "while", !.attempted = Append(@, drun.city)]
    /\ UNCHANGED lead_table
    /\ DiscoverOnly

DiscoverNext ==
    \/ \E key \in BOOLEAN : DiscoverRunBegin(key)
    \/ DiscoverPick
    \/ \E results \in SearchResults : DiscoverSearch(results)
    \/ DiscoverSearchRaises
    \/ DiscoverInsert
    \/ DiscoverListEnd
    \/ DiscoverMark

(***************************************************************************)
(* db_manager.py: reset_city_rotation                                      *)
(***************************************************************************)
\* The (city_name, country) of the rows, unique by the table's constraint:
\* names are numbered, and two cities of a name lie in different countries.
CityName(c) == (c + 1) \div 2
CityCountry(c) == IF c % 2 = 1 THEN "ES" ELSE "AR"
CityNames == {CityName(c) : c \in Cities} \cup {0}
\* start_country: None (the default), or a country.
StartCountries == {Null, Some("ES"), Some("AR"), Some("XX")}

\* The rows the second UPDATE matches: by name and country when
\* start_country is given, by name alone otherwise.
ResetTargets(table, start_city, start_country) ==
    {c \in DOMAIN table :
        /\ CityName(c) = start_city
        /\ Truthy(start_country) => Some(CityCountry(c)) = start_country}
\* The two UPDATEs of reset_city_rotation.
ResetRotationTargetOnly(table, start_city, start_country, date) ==
    [c \in DOMAIN table |->
        IF c \in ResetTargets(table, start_city, start_country)
        THEN [last_searched |-> NullDate, search_count |-> 0]
        ELSE table[c]]
ResetRotation(table, start_city, start_country, date) ==
    [c \in DOMAIN table |->
        IF c \in ResetTargets(table, start_city, start_country)
        THEN [last_searched |-> NullDate, search_count |-> 0]
        ELSE [last_searched |-> date, search_count |-> 1]]
\* return updated > 0
ResetReturn(table, start_city, start_country) ==
    ResetTargets(table, start_city, start_country) # {}

NoReset == [calls |-> 0, start_city |-> 0, start_country |-> Null, returned |-> FALSE]

\* reset_city_rotation(start_city, start_country), between discovery runs.
ResetCityRotation(start_city, start_country) ==
    /\ reset.calls < MaxResets
    /\ disc.pc # "loop"
    /\ city_rotation' = ResetRotation(city_rotation, start_city, start_country, today)
    /\ reset' = [calls |-> reset.calls + 1, start_city |-> start_city,
                 start_country |-> start_country,
                 returned |-> ResetReturn(city_rotation, start_city, start_country)]
    /\ UNCHANGED <<today, disc, picks>>
    /\ UNCHANGED <<execVars, celeryVars, storeVars, driverVars, orunVars, procVars,
                   collectorVars, leadTableVars, statusVars, triggerVars, parserVars,
                   followupVars, selectVars, discoverVars, retryVars, analyzeVars, feedVars>>

ResetNext ==
    \/ NextDay
    \/ DiscoverBegin
    \/ \E c \in Cities : \E reached \in BOOLEAN : DiscoverCity(c, reached)
    \/ DiscoverAbort
    \/ \E start_city \in CityNames : \E start_country \in StartCountries :
           ResetCityRotation(start_city, start_country)

(***************************************************************************)
(* agents/lead_generation/tools/utils.py: retry; the wrapped functions     *)
(* ai_analyze._call_gemini and gmass_send.send_transactional_email         *)
(***************************************************************************)
\* What requests.post does: a response with a status and a body, or a
\* subclass of requests.RequestException.
ConnectionError == Exc("ConnectionError", "connection refused")
Timeout == Exc("Timeout", "read timed out")
HTTPError == Exc("HTTPError", "500 Server Error")
AttributeError == Exc("AttributeError", "'list' object has no attribute 'get'")
Response(status, body) == [kind |-> "response", status |-> status, body |-> body, exc |-> NoExc]
PostRaises(e) == [kind |-> "raise", status |-> 0, body |-> "", exc |-> e]
NetworkErrors == {PostRaises(ConnectionError), PostRaises(Timeout)}

\* isinstance(e, requests.RequestException): exceptions = (requests.RequestException,)
IsRequestException(e) == e \in {ConnectionError, Timeout, HTTPError}

\* What a call of the wrapped function does, as the wrapper sees it.
Returns(v) == [kind |-> "return", value |-> v, exc |-> NoExc]
Raises(e) == [kind |-> "raise", value |-> "", exc |-> e]

\* _call_gemini(prompt): post, raise_for_status, the text of the first
\* candidate; a body that is no object of the expected shape raises.
CallGemini(http) ==
    IF http.kind = "raise" THEN Raises(http.exc)
    ELSE IF http.status # 200 THEN Raises(HTTPError)
    ELSE IF http.body = "malformed" THEN Raises(AttributeError)
    ELSE IF http.body = "no candidates" THEN Returns("None")
    ELSE Returns(http.body)

\* send_transactional_email(...): the try/except around the post.
SendTransactionalEmail(http) ==
    IF http.kind = "raise" THEN Returns("failure")
    ELSE IF http.status = 200 THEN Returns("success")
    ELSE Returns("failure")

WrappedFunctions == {"_call_gemini", "send_transactional_email"}
PostOutcomes(func) ==
    IF func = "_call_gemini"
    THEN {Response(200, "{json}"), Response(200, "no candidates"), Response(200, "malformed"),
          Response(500, "")} \cup NetworkErrors
    ELSE {Response(200, "{json}"), Response(500, "")} \cup NetworkErrors
Invoke(func, http) ==
    IF func = "_call_gemini" THEN CallGemini(http) ELSE SendTransactionalEmail(http)

NoRetry ==
    [pc |-> "none", func |-> "", max_attempts |-> 0, attempt |-> 0, log |-> <<>>,
     outcome |-> Returns("None")]

RetryOnly ==
    UNCHANGED <<execVars, celeryVars, storeVars, driverVars, orunVars, procVars,
                collectorVars, rotationVars, leadTableVars, statusVars, triggerVars, parserVars,
                followupVars, selectVars, discoverVars, resetVars, analyzeVars, feedVars>>

\* wrapper(*args, **kwargs) of a function decorated with
\* retry(max_attempts, backoff_factor, exceptions=(requests.RequestException,)).
RetryCall(func, max_attempts) ==
    /\ rt.pc = "none"
    /\ rt' = [NoRetry EXCEPT !.pc = "loop", !.func = func, !.max_attempts = max_attempts]
    /\ RetryOnly

\* One pass of `for attempt in range(max_attempts)`: the function is invoked;
\* log keeps what the HTTP call did and what the wrapper saw.
RetryInvoke(http) ==
    /\ rt.pc = "loop"
    /\ rt.attempt < rt.max_attempts
    /\ http \in PostOutcomes(rt.func)
    /\ LET seen == Invoke(rt.func, http)
           logged == Append(rt.log, [http |-> http, seen |-> seen])
       IN  rt' = IF seen.kind = "return"
                 THEN [rt EXCEPT !.pc = "returned", !.log = logged, !.outcome = seen]
                 ELSE IF ~IsRequestException(seen.exc)
                 THEN [rt EXCEPT !.pc = "raised", !.log = logged, !.outcome = seen]
                 ELSE IF rt.attempt = rt.max_attempts - 1
                 THEN [rt EXCEPT !.pc = "raised", !.log = logged, !.outcome = seen]
                 ELSE [rt EXCEPT !.pc = "sleep", !.log = logged]
    /\ RetryOnly

\* time.sleep(wait) is over: the next pass.
RetrySleepEnd ==
    /\ rt.pc = "sleep"
    /\ rt' = [rt EXCEPT !.pc = "loop", !.attempt = @ + 1]
    /\ RetryOnly

\* range(max_attempts) is used up without a return or a raise, which happens
\* for max_attempts = 0 only: the wrapper returns None.
RetryLoopEnd ==
    /\ rt.pc = "loop"
    /\ rt.attempt >= rt.max_attempts
    /\ rt' = [rt EXCEPT !.pc = "returned", !.outcome = Returns("None")]
    /\ RetryOnly

RetryNext ==
    \/ \E func \in WrappedFunctions : \E n \in 0..MaxAttempts : RetryCall(func, n)
    \/ \E http \in PostOutcomes("_call_gemini") : RetryInvoke(http)
    \/ RetrySleepEnd
    \/ RetryLoopEnd

(***************************************************************************)
(* agents/lead_generation/tools/ai_analyze.py: _analyze_lead               *)
(***************************************************************************)
\* The texts a provider call returns, and what safe_json_parse makes of them:
\* None for a text that holds no JSON, else the parsed value. A parsed object
\* is given by its keys and the values of "summary" and "automations".
NoJson == [json |-> FALSE, keys |-> {}, summary |-> "", automations |-> "None"]
Parsed(summary, automations) ==
    [json |-> TRUE, keys |-> {"summary", "automations"}, summary |-> summary,
     automations |-> automations]
ParsedSummaryOnly == [json |-> TRUE, keys |-> {"summary"}, summary |-> "Una agencia.", automations |-> "None"]
SafeJsonParse(text) ==
    CASE text = "{summary, automations}" -> Parsed("Una agencia.", "list of 3")
      [] text = "{summary: '', automations: []}" -> Parsed("", "empty list")
      [] text = "{summary, automations: 'x'}" -> Parsed("Una agencia.", "str")
      [] text = "{summary}" -> ParsedSummaryOnly
      [] OTHER -> NoJson
ProviderTexts ==
    {"{summary, automations}", "{summary: '', automations: []}", "{summary, automations: 'x'}",
     "{summary}", "no json", ""}

\* What _call_gemini or _call_openai does, retries included: it returns a
\* text or None, or raises.
ProviderOutcomes ==
    {Returns(t) : t \in ProviderTexts} \cup {Returns("None")}
        \cup {Raises(e) : e \in {HTTPError, ConnectionError, AttributeError}}

\* `if text:` and `if parsed and "summary" in parsed and "automations" in parsed`
TextTruthy(o) == o.kind = "return" /\ o.value \notin {"None", ""}
Usable(o) ==
    /\ TextTruthy(o)
    /\ SafeJsonParse(o.value).json
    /\ {"summary", "automations"} \subseteq SafeJsonParse(o.value).keys

\* The pair (summary, automations) _analyze_lead returns.
Analysis(source, summary, automations) ==
    [source |-> source, summary |-> summary, automations |-> automations]
FromProvider(source, o) ==
    Analysis(source, SafeJsonParse(o.value).summary, SafeJsonParse(o.value).automations)
\* _generic_fallback(lead)
GenericFallback ==
    Analysis("fallback", "Esta agencia es una agencia de marketing digital ubicada en , .", "list of 3")

NoAnalysis ==
    [pc |-> "none", gemini_key |-> FALSE, openai_key |-> FALSE, calls |-> <<>>,
     answers |-> <<>>, result |-> Analysis("", "", "None")]

AnalyzeOnly ==
    UNCHANGED <<execVars, celeryVars, storeVars, driverVars, orunVars, procVars,
                collectorVars, rotationVars, leadTableVars, statusVars, triggerVars, parserVars,
                followupVars, selectVars, discoverVars, resetVars, retryVars, feedVars>>

\* _analyze_lead(lead) is called; the prompt is built.
AnalyzeLead(gemini_key, openai_key) ==
    /\ analysis.pc = "none"
    /\ analysis' = [NoAnalysis EXCEPT !.pc = "gemini", !.gemini_key = gemini_key,
                                !.openai_key = openai_key]
    /\ AnalyzeOnly

\* Lines 141-150: `if GEMINI_API_KEY:` and its try/except.
TryGemini(o) ==
    /\ analysis.pc = "gemini"
    /\ analysis' = IF ~analysis.gemini_key THEN [analysis EXCEPT !.pc = "openai"]
             ELSE IF Usable(o)
             THEN [analysis EXCEPT !.pc = "returned", !.calls = Append(@, "gemini"),
                             !.answers = Append(@, o), !.result = FromProvider("gemini", o)]
             ELSE [analysis EXCEPT !.pc = "openai", !.calls = Append(@, "gemini"),
                             !.answers = Append(@, o)]
    /\ AnalyzeOnly

\* Lines 152-162: `if OPENAI_API_KEY:` and its try/except.
TryOpenai(o) ==
    /\ analysis.pc = "openai"
    /\ analysis' = IF ~analysis.openai_key THEN [analysis EXCEPT !.pc = "fallback"]
             ELSE IF Usable(o)
             THEN [analysis EXCEPT !.pc = "returned", !.calls = Append(@, "openai"),
                             !.answers = Append(@, o), !.result = FromProvider("openai", o)]
             ELSE [analysis EXCEPT !.pc = "fallback", !.calls = Append(@, "openai"),
                             !.answers = Append(@, o)]
    /\ AnalyzeOnly

\* Line 165: return _generic_fallback(lead)
ReturnGenericFallback ==
    /\ analysis.pc = "fallback"
    /\ analysis' = [analysis EXCEPT !.pc = "returned", !.result = GenericFallback]
    /\ AnalyzeOnly

AnalyzeNext ==
    \/ \E g, o \in BOOLEAN : AnalyzeLead(g, o)
    \/ \E o \in ProviderOutcomes : TryGemini(o)
    \/ \E o \in ProviderOutcomes : TryOpenai(o)
    \/ ReturnGenericFallback

(***************************************************************************)
(* server.py: _parse_errors, _status_from_errors, _severity_from_error,    *)
(* the rows of _build_status_rows and _build_event_rows                    *)
(***************************************************************************)
\* An error text is the sequence of its words. run_pipeline.main() writes
\* them as "<stage>: <str(e)>".
ErrorPool ==
    << <<"Discovery", ":", "Traceback", "(most", "recent", "call", "last)">>,
       <<"AI", "analysis", ":", "timeout">>,
       <<"Email", "send", ":", "FATAL", "authentication", "failed">>,
       <<"Critical", ":", "database", "is", "locked">>,
       <<"Outreach", ":", "connection", "refused">>,
       <<"Email", ":", "send_email", "returned", "False">>,
       <<"Excel", ":", "disk", "full">> >>
Reverse(s) == [i \in 1..Len(s) |-> s[Len(s) + 1 - i]]
ErrorLists ==
    {SubSeq(ErrorPool, 1, e) : e \in 0..MaxErrors}
        \cup {SubSeq(Reverse(ErrorPool), 1, e) : e \in 0..MaxErrors}

\* The rows _get_pipeline_runs returns, ordered by run_date: the errors
\* column is NULL or the JSON text of the list (log_pipeline_run).
FeedRun(run_date, errors) ==
    [run_date |-> run_date, errors |-> IF errors # <<>> THEN JsonDumps(errors) ELSE JsonNull]
FeedTables ==
    UNION {[1..n -> ErrorLists] : n \in 0..MaxRuns}
FeedRows(table) == [i \in 1..Len(table) |-> FeedRun(i, table[i])]

\* _parse_errors(raw): None gives [], a JSON list its items stripped, the
\* blank ones left out.
ParseErrors(raw) ==
    IF raw.null THEN <<>> ELSE SelectSeq(raw.list, LAMBDA text : text # <<>>)

\* _status_from_errors(error_count)
StatusFromErrors(error_count) ==
    IF error_count = 0 THEN "Activo"
    ELSE IF error_count <= 2 THEN "Optimizando"
    ELSE "En revision"

\* success_rate = max(0.0, 100.0 - min(100.0, error_count * 25.0))
Max(a, b) == IF a > b THEN a ELSE b
SuccessRate(error_count) == Max(0, 100 - Min(100, error_count * 25))

\* str.lower(), word by word.
Lower(word) ==
    CASE word = "Critical" -> "critical"
      [] word = "FATAL" -> "fatal"
      [] word = "Traceback" -> "traceback"
      [] word = "Discovery" -> "discovery"
      [] word = "AI" -> "ai"
      [] word = "Email" -> "email"
      [] word = "Outreach" -> "outreach"
      [] word = "Excel" -> "excel"
      [] word = "False" -> "false"
      [] OTHER -> word
LowerText(text) == [i \in 1..Len(text) |-> Lower(text[i])]
HasWord(text, w) == \E i \in 1..Len(text) : text[i] = w

\* _severity_from_error(error_text)
SeverityCaseSensitive(error_text) ==
    IF HasWord(error_text, "critical") \/ HasWord(error_text, "fatal")
           \/ HasWord(error_text, "traceback")
    THEN "critical" ELSE "warning"
SeverityFromError(error_text) ==
    LET value == LowerText(error_text)
    IN  IF HasWord(value, "critical") \/ HasWord(value, "fatal") \/ HasWord(value, "traceback")
        THEN "critical" ELSE "warning"

\* _build_status_rows: the row of one run (status and success_rate).
StatusFields(row) ==
    LET error_count == Len(ParseErrors(row.errors))
    IN  [updated_at |-> row.run_date, status |-> StatusFromErrors(error_count),
         runs_total |-> 1, success_rate |-> SuccessRate(error_count)]

\* _build_event_rows: the summary event of one run, then one event per error.
RunEvent(row) ==
    [event_type |-> "pipeline_run", occurred_at |-> row.run_date, severity |-> "info",
     status |-> StatusFromErrors(Len(ParseErrors(row.errors))), summary |-> <<>>]
ErrorEvent(row, error_text) ==
    [event_type |-> "pipeline_error", occurred_at |-> row.run_date,
     severity |-> SeverityFromError(error_text),
     status |-> StatusFromErrors(Len(ParseErrors(row.errors))), summary |-> error_text]
EventsOfRun(row) ==
    LET errors == ParseErrors(row.errors)
    IN  <<RunEvent(row)>> \o [k \in 1..Len(errors) |-> ErrorEvent(row, errors[k])]
RECURSIVE BuildEvents(_)
BuildEvents(rows) ==
    IF rows = <<>> THEN <<>> ELSE EventsOfRun(Head(rows)) \o BuildEvents(Tail(rows))

NoFeed == [pc |-> "none", rows |-> <<>>, status_rows |-> <<>>, events |-> <<>>]

FeedOnly ==
    UNCHANGED <<execVars, celeryVars, storeVars, driverVars, orunVars, procVars,
                collectorVars, rotationVars, leadTableVars, statusVars, triggerVars, parserVars,
                followupVars, selectVars, discoverVars, resetVars, retryVars, analyzeVars>>

\* The for loop of _build_status_rows over the rows read.
BuildStatusRowsReturn ==
    /\ feed.pc = "none"
    /\ feed' = [feed EXCEPT !.pc = "status",
                            !.status_rows = [i \in 1..Len(feed.rows) |-> StatusFields(feed.rows[i])]]
    /\ FeedOnly

\* The for loop of _build_event_rows over the rows read.
BuildEventRowsReturn ==
    /\ feed.pc = "none"
    /\ feed' = [feed EXCEPT !.pc = "events", !.events = BuildEvents(feed.rows)]
    /\ FeedOnly

FeedNext ==
    \/ BuildStatusRowsReturn
    \/ BuildEventRowsReturn

(***************************************************************************)
(* The agent runtime and the collector together: the envelope that         *)
(* BaseAgent._push_metrics posts is the body push_metrics receives.        *)
(***************************************************************************)
\* client.post(url, json=payload): the metrics as JSON values.
JsonBody(payload) ==
    [agent_name |-> payload.agent_name,
     metrics    |-> {<<e[1], [type |-> "int", repr |-> ToString(e[2])]>> : e \in payload.metrics},
     started_at |-> payload.started_at,
     error      |-> payload.error]

\* The q-th envelope posted reaches push_metrics, which flushes the run. A
\* post that the agent saw succeed was answered 201; one it saw fail was
\* lost on the way, which leaves the collector as a flush that raises does,
\* or was answered with an error.
DeliverPush(q, ok) ==
    /\ q \in 1..Len(posts)
    /\ posts[q].http = "ok" => ok
    /\ PushMetricsFlush(q, JsonBody(posts[q].payload), ok)

\* push_metrics commits, or raises after the flush.
DeliverCommit(q, ok) ==
    /\ q \in 1..Len(posts)
    /\ ok <=> posts[q].http = "ok"
    /\ PushMetricsCommit(q, ok)

EndToEndNext ==
    \/ \E name \in AgentNames : ExecCall(name)
    \/ \E r \in RunResults : ExecRun(r)
    \/ \E h \in HttpResults : ExecPush(h)
    \/ \E q \in PostIds : \E ok \in BOOLEAN : DeliverPush(q, ok)
    \/ \E q \in PostIds : \E ok \in BOOLEAN : DeliverCommit(q, ok)

(***************************************************************************)
(* Specifications.                                                         *)
(***************************************************************************)
\* Every specification starts with all subsystems at rest: no call of
\* execute() yet, an empty queue and idle workers.
Init ==
    /\ ex = ExecIdleFrame
    /\ posts = <<>>
    /\ broker = {}
    /\ tasks = NoTasks
    /\ workers = AllIdle
    /\ config = [gmass_key |-> FALSE, transport |-> "gmass"]
    /\ leads = [l \in LeadIds |-> Lead(FALSE, FALSE, NullDate)]
    /\ outreach = {}
    /\ pipeline_runs = <<>>
    /\ pl = PlIdle
    /\ orun = [r \in OutreachRuns |-> OutreachIdle]
    /\ schedEnv = [schedule_time |-> 0, allowed_days |-> 1..5,
                   run_on_startup |-> FALSE, catchup_on_boot |-> FALSE]
    /\ sched = SchedIdle
    /\ wall = [date |-> 1, slot |-> 0]
    /\ shutdown_requested = FALSE
    /\ reqs = NoRequests
    /\ agent_runs = {}
    /\ agent_metrics = {}
    /\ run_seq = 0
    /\ post = [q \in PostIds |-> PostIdle]
    /\ get = [g \in GetIds |-> GetIdle]
    /\ city_rotation = SeededRotation
    /\ today = 1
    /\ disc = DiscIdle
    /\ picks = <<>>
    /\ lead_table = <<>>
    /\ ins = NoInsert
    /\ run_dates = <<>>
    /\ areq = NoStatusRequest
    /\ trig = NoTrigger
    /\ parse = NoParse
    /\ outreach_table = <<>>
    /\ current_date = 1
    /\ frun = FollowupIdle
    /\ sel = NoSelect
    /\ drun = DiscoverIdle
    /\ reset = NoReset
    /\ rt = NoRetry
    /\ analysis = NoAnalysis
    /\ feed = NoFeed

ExecSpec == Init /\ [][ExecNext]_vars

\* Workers keep consuming the queue, and a started execute() finishes.
CeleryFairness ==
    /\ WF_vars(\E w \in Workers : \E m \in broker : WorkerStart(w, m))
    /\ WF_vars(\E w \in Workers : \E r \in RunResults : \E h \in HttpResults :
                   WorkerFinish(w, r, h))
CelerySpec == Init /\ [][CeleryNext]_vars /\ CeleryFairness

\* One call of run_pipeline.main(), from any store content, with and without
\* GMASS_API_KEY (the driver reads no other setting; OUTREACH_TRANSPORT is at
\* its default).
DriverInit ==
    /\ ex = ExecIdleFrame
    /\ posts = <<>>
    /\ broker = {}
    /\ tasks = NoTasks
    /\ workers = AllIdle
    /\ config \in [gmass_key : BOOLEAN, transport : {"gmass"}]
    /\ leads \in [LeadIds -> LeadRows]
    /\ outreach \in {InsertInitialFor({}, O) :
                        O \in SUBSET {l \in LeadIds : leads[l].sent_date # NullDate /\ leads[l].email}}
    /\ pipeline_runs = <<>>
    /\ pl = PlIdle
    /\ orun = [r \in OutreachRuns |-> OutreachIdle]
    /\ schedEnv = [schedule_time |-> 0, allowed_days |-> 1..5,
                   run_on_startup |-> FALSE, catchup_on_boot |-> FALSE]
    /\ sched = SchedIdle
    /\ wall = [date |-> 1, slot |-> 0]
    /\ shutdown_requested = FALSE
    /\ reqs = NoRequests
    /\ agent_runs = {}
    /\ agent_metrics = {}
    /\ run_seq = 0
    /\ post = [q \in PostIds |-> PostIdle]
    /\ get = [g \in GetIds |-> GetIdle]
    /\ city_rotation = SeededRotation
    /\ today = 1
    /\ disc = DiscIdle
    /\ picks = <<>>
    /\ lead_table = <<>>
    /\ ins = NoInsert
    /\ run_dates = <<>>
    /\ areq = NoStatusRequest
    /\ trig = NoTrigger
    /\ parse = NoParse
    /\ outreach_table = <<>>
    /\ current_date = 1
    /\ frun = FollowupIdle
    /\ sel = NoSelect
    /\ drun = DiscoverIdle
    /\ reset = NoReset
    /\ rt = NoRetry
    /\ analysis = NoAnalysis
    /\ feed = NoFeed
DriverSpec == DriverInit /\ [][DriverNext]_vars

\* Executions of send_outreach.run() that may overlap (the scheduler
\* subprocess, POST /run-now, the Celery agent), on any store and setting.
OutreachInit ==
    /\ ex = ExecIdleFrame
    /\ posts = <<>>
    /\ broker = {}
    /\ tasks = NoTasks
    /\ workers = AllIdle
    /\ config \in [gmass_key : BOOLEAN, transport : {"gmass", "smtp", "sendgrid"}]
    /\ leads \in [LeadIds -> LeadRows]
    /\ outreach \in {InsertInitialFor({}, O) :
                        O \in SUBSET {l \in LeadIds : leads[l].sent_date # NullDate /\ leads[l].email}}
    /\ pipeline_runs = <<>>
    /\ pl = PlIdle
    /\ orun = [r \in OutreachRuns |-> OutreachIdle]
    /\ schedEnv = [schedule_time |-> 0, allowed_days |-> 1..5,
                   run_on_startup |-> FALSE, catchup_on_boot |-> FALSE]
    /\ sched = SchedIdle
    /\ wall = [date |-> 1, slot |-> 0]
    /\ shutdown_requested = FALSE
    /\ reqs = NoRequests
    /\ agent_runs = {}
    /\ agent_metrics = {}
    /\ run_seq = 0
    /\ post = [q \in PostIds |-> PostIdle]
    /\ get = [g \in GetIds |-> GetIdle]
    /\ city_rotation = SeededRotation
    /\ today = 1
    /\ disc = DiscIdle
    /\ picks = <<>>
    /\ lead_table = <<>>
    /\ ins = NoInsert
    /\ run_dates = <<>>
    /\ areq = NoStatusRequest
    /\ trig = NoTrigger
    /\ parse = NoParse
    /\ outreach_table = <<>>
    /\ current_date = 1
    /\ frun = FollowupIdle
    /\ sel = NoSelect
    /\ drun = DiscoverIdle
    /\ reset = NoReset
    /\ rt = NoRetry
    /\ analysis = NoAnalysis
    /\ feed = NoFeed
OutreachSpec == OutreachInit /\ [][OutreachNext]_vars

\* The scheduler process booting at any time under any schedule setting, and
\* the facade process receiving run-now requests.
ProcInit ==
    /\ ex = ExecIdleFrame
    /\ posts = <<>>
    /\ broker = {}
    /\ tasks = NoTasks
    /\ workers = AllIdle
    /\ config = [gmass_key |-> FALSE, transport |-> "gmass"]
    /\ leads = [l \in LeadIds |-> Lead(FALSE, FALSE, NullDate)]
    /\ outreach = {}
    /\ pipeline_runs = <<>>
    /\ pl = PlIdle
    /\ orun = [r \in OutreachRuns |-> OutreachIdle]
    /\ schedEnv \in [schedule_time : Slots, allowed_days : DayChoices,
                      run_on_startup : BOOLEAN, catchup_on_boot : BOOLEAN]
    /\ sched = SchedIdle
    /\ wall \in [date : Dates, slot : Slots]
    /\ shutdown_requested = FALSE
    /\ reqs = NoRequests
    /\ agent_runs = {}
    /\ agent_metrics = {}
    /\ run_seq = 0
    /\ post = [q \in PostIds |-> PostIdle]
    /\ get = [g \in GetIds |-> GetIdle]
    /\ city_rotation = SeededRotation
    /\ today = 1
    /\ disc = DiscIdle
    /\ picks = <<>>
    /\ lead_table = <<>>
    /\ ins = NoInsert
    /\ run_dates = <<>>
    /\ areq = NoStatusRequest
    /\ trig = NoTrigger
    /\ parse = NoParse
    /\ outreach_table = <<>>
    /\ current_date = 1
    /\ frun = FollowupIdle
    /\ sel = NoSelect
    /\ drun = DiscoverIdle
    /\ reset = NoReset
    /\ rt = NoRetry
    /\ analysis = NoAnalysis
    /\ feed = NoFeed
ProcSpec == ProcInit /\ [][ProcNext]_vars

\* Executions of an agent whose envelopes reach the collector.
EndToEndSpec == Init /\ [][EndToEndNext]_vars

\* The facade building its rows from any runs read from pipeline_runs.
FeedInit ==
    /\ ex = ExecIdleFrame
    /\ posts = <<>>
    /\ broker = {}
    /\ tasks = NoTasks
    /\ workers = AllIdle
    /\ config = [gmass_key |-> FALSE, transport |-> "gmass"]
    /\ leads = [l \in LeadIds |-> Lead(FALSE, FALSE, NullDate)]
    /\ outreach = {}
    /\ pipeline_runs = <<>>
    /\ pl = PlIdle
    /\ orun = [r \in OutreachRuns |-> OutreachIdle]
    /\ schedEnv = [schedule_time |-> 0, allowed_days |-> 1..5,
                   run_on_startup |-> FALSE, catchup_on_boot |-> FALSE]
    /\ sched = SchedIdle
    /\ wall = [date |-> 1, slot |-> 0]
    /\ shutdown_requested = FALSE
    /\ reqs = NoRequests
    /\ agent_runs = {}
    /\ agent_metrics = {}
    /\ run_seq = 0
    /\ post = [q \in PostIds |-> PostIdle]
    /\ get = [g \in GetIds |-> GetIdle]
    /\ city_rotation = SeededRotation
    /\ today = 1
    /\ disc = DiscIdle
    /\ picks = <<>>
    /\ lead_table = <<>>
    /\ ins = NoInsert
    /\ run_dates = <<>>
    /\ areq = NoStatusRequest
    /\ trig = NoTrigger
    /\ parse = NoParse
    /\ outreach_table = <<>>
    /\ current_date = 1
    /\ frun = FollowupIdle
    /\ sel = NoSelect
    /\ drun = DiscoverIdle
    /\ reset = NoReset
    /\ rt = NoRetry
    /\ analysis = NoAnalysis
    /\ feed \in {[NoFeed EXCEPT !.rows = FeedRows(t)] : t \in FeedTables}
FeedSpec == FeedInit /\ [][FeedNext]_vars

\* A call of _analyze_lead under any configuration of the two keys.
AnalyzeSpec == Init /\ [][AnalyzeNext]_vars

\* A call of a function wrapped by retry.
RetrySpec == Init /\ [][RetryNext]_vars

\* The scheduler process alone, booting at any time under any schedule setting.
SchedulerSpec == ProcInit /\ [][SchedulerNext]_vars

\* The same, with the process going on: the interpreter executes the next
\* statement of main(), run_pipeline() returns or raises (_run_pipeline_once
\* catches it), and time.sleep(poll_seconds) ends.
SchedulerFairness ==
    /\ WF_vars(SchedLoopTop)
    /\ WF_vars(SchedRunEnd)
    /\ WF_vars(SchedCheck)
    /\ WF_vars(SchedSleep)
SchedulerLiveSpec == ProcInit /\ [][SchedulerNext]_vars /\ SchedulerFairness

\* The collector serving requests that may overlap.
CollectorSpec == Init /\ [][CollectorNext]_vars

\* Discovery runs over the seeded rotation, on one or several dates.
RotationSpec == Init /\ [][RotationNext]_vars

\* Discovery runs and resets of the rotation.
ResetSpec == Init /\ [][ResetNext]_vars

\* Discovery, Apollo enrichment and reporting on the leads table.
LeadTableSpec == Init /\ [][LeadTableNext]_vars

\* GET /api/acem/agent-status on any contents of pipeline_runs.
StatusInit ==
    /\ ex = ExecIdleFrame
    /\ posts = <<>>
    /\ broker = {}
    /\ tasks = NoTasks
    /\ workers = AllIdle
    /\ config = [gmass_key |-> FALSE, transport |-> "gmass"]
    /\ leads = [l \in LeadIds |-> Lead(FALSE, FALSE, NullDate)]
    /\ outreach = {}
    /\ pipeline_runs = <<>>
    /\ pl = PlIdle
    /\ orun = [r \in OutreachRuns |-> OutreachIdle]
    /\ schedEnv = [schedule_time |-> 0, allowed_days |-> 1..5,
                   run_on_startup |-> FALSE, catchup_on_boot |-> FALSE]
    /\ sched = SchedIdle
    /\ wall = [date |-> 1, slot |-> 0]
    /\ shutdown_requested = FALSE
    /\ reqs = NoRequests
    /\ agent_runs = {}
    /\ agent_metrics = {}
    /\ run_seq = 0
    /\ post = [q \in PostIds |-> PostIdle]
    /\ get = [g \in GetIds |-> GetIdle]
    /\ city_rotation = SeededRotation
    /\ today = 1
    /\ disc = DiscIdle
    /\ picks = <<>>
    /\ lead_table = <<>>
    /\ ins = NoInsert
    /\ run_dates \in RunDateTables
    /\ areq = NoStatusRequest
    /\ trig = NoTrigger
    /\ parse = NoParse
    /\ outreach_table = <<>>
    /\ current_date = 1
    /\ frun = FollowupIdle
    /\ sel = NoSelect
    /\ drun = DiscoverIdle
    /\ reset = NoReset
    /\ rt = NoRetry
    /\ analysis = NoAnalysis
    /\ feed = NoFeed
StatusSpec == StatusInit /\ [][StatusNext]_vars

\* _should_trigger_scheduled_run called on any arguments.
TriggerInit ==
    /\ ex = ExecIdleFrame
    /\ posts = <<>>
    /\ broker = {}
    /\ tasks = NoTasks
    /\ workers = AllIdle
    /\ config = [gmass_key |-> FALSE, transport |-> "gmass"]
    /\ leads = [l \in LeadIds |-> Lead(FALSE, FALSE, NullDate)]
    /\ outreach = {}
    /\ pipeline_runs = <<>>
    /\ pl = PlIdle
    /\ orun = [r \in OutreachRuns |-> OutreachIdle]
    /\ schedEnv = [schedule_time |-> 0, allowed_days |-> 1..5,
                   run_on_startup |-> FALSE, catchup_on_boot |-> FALSE]
    /\ sched = SchedIdle
    /\ wall = [date |-> 1, slot |-> 0]
    /\ shutdown_requested = FALSE
    /\ reqs = NoRequests
    /\ agent_runs = {}
    /\ agent_metrics = {}
    /\ run_seq = 0
    /\ post = [q \in PostIds |-> PostIdle]
    /\ get = [g \in GetIds |-> GetIdle]
    /\ city_rotation = SeededRotation
    /\ today = 1
    /\ disc = DiscIdle
    /\ picks = <<>>
    /\ lead_table = <<>>
    /\ ins = NoInsert
    /\ run_dates = <<>>
    /\ areq = NoStatusRequest
    /\ trig \in [pc : {"called"}, now : TriggerNows, schedule_time : TriggerTimes,
               allowed_days : DayChoices, last : {NullDate} \cup Dates,
               result : {FALSE}]
    /\ parse = NoParse
    /\ outreach_table = <<>>
    /\ current_date = 1
    /\ frun = FollowupIdle
    /\ sel = NoSelect
    /\ drun = DiscoverIdle
    /\ reset = NoReset
    /\ rt = NoRetry
    /\ analysis = NoAnalysis
    /\ feed = NoFeed
TriggerSpec == TriggerInit /\ [][TriggerNext]_vars

\* _parse_schedule_days called on any text.
ParserInit ==
    /\ ex = ExecIdleFrame
    /\ posts = <<>>
    /\ broker = {}
    /\ tasks = NoTasks
    /\ workers = AllIdle
    /\ config = [gmass_key |-> FALSE, transport |-> "gmass"]
    /\ leads = [l \in LeadIds |-> Lead(FALSE, FALSE, NullDate)]
    /\ outreach = {}
    /\ pipeline_runs = <<>>
    /\ pl = PlIdle
    /\ orun = [r \in OutreachRuns |-> OutreachIdle]
    /\ schedEnv = [schedule_time |-> 0, allowed_days |-> 1..5,
                   run_on_startup |-> FALSE, catchup_on_boot |-> FALSE]
    /\ sched = SchedIdle
    /\ wall = [date |-> 1, slot |-> 0]
    /\ shutdown_requested = FALSE
    /\ reqs = NoRequests
    /\ agent_runs = {}
    /\ agent_metrics = {}
    /\ run_seq = 0
    /\ post = [q \in PostIds |-> PostIdle]
    /\ get = [g \in GetIds |-> GetIdle]
    /\ city_rotation = SeededRotation
    /\ today = 1
    /\ disc = DiscIdle
    /\ picks = <<>>
    /\ lead_table = <<>>
    /\ ins = NoInsert
    /\ run_dates = <<>>
    /\ areq = NoStatusRequest
    /\ trig = NoTrigger
    /\ parse \in [pc : {"called"}, value : Texts, result : {DaysReturn({})}]
    /\ outreach_table = <<>>
    /\ current_date = 1
    /\ frun = FollowupIdle
    /\ sel = NoSelect
    /\ drun = DiscoverIdle
    /\ reset = NoReset
    /\ rt = NoRetry
    /\ analysis = NoAnalysis
    /\ feed = NoFeed
ParserSpec == ParserInit /\ [][ParserNext]_vars

\* The outreach table under send_followups.run() and replies.
FollowupSpec == Init /\ [][FollowupNext]_vars

\* get_unsent_leads called on any table and limit.
SelectInit ==
    /\ ex = ExecIdleFrame
    /\ posts = <<>>
    /\ broker = {}
    /\ tasks = NoTasks
    /\ workers = AllIdle
    /\ config = [gmass_key |-> FALSE, transport |-> "gmass"]
    /\ leads = [l \in LeadIds |-> Lead(FALSE, FALSE, NullDate)]
    /\ outreach = {}
    /\ pipeline_runs = <<>>
    /\ pl = PlIdle
    /\ orun = [r \in OutreachRuns |-> OutreachIdle]
    /\ schedEnv = [schedule_time |-> 0, allowed_days |-> 1..5,
                   run_on_startup |-> FALSE, catchup_on_boot |-> FALSE]
    /\ sched = SchedIdle
    /\ wall = [date |-> 1, slot |-> 0]
    /\ shutdown_requested = FALSE
    /\ reqs = NoRequests
    /\ agent_runs = {}
    /\ agent_metrics = {}
    /\ run_seq = 0
    /\ post = [q \in PostIds |-> PostIdle]
    /\ get = [g \in GetIds |-> GetIdle]
    /\ city_rotation = SeededRotation
    /\ today = 1
    /\ disc = DiscIdle
    /\ picks = <<>>
    /\ lead_table = <<>>
    /\ ins = NoInsert
    /\ run_dates = <<>>
    /\ areq = NoStatusRequest
    /\ trig = NoTrigger
    /\ parse = NoParse
    /\ outreach_table = <<>>
    /\ current_date = 1
    /\ frun = FollowupIdle
    /\ sel \in [pc : {"called"}, table : [SelectLeadIds -> SelectRows],
              limit : 0..MaxLimit, rows : {{}}]
    /\ drun = DiscoverIdle
    /\ reset = NoReset
    /\ rt = NoRetry
    /\ analysis = NoAnalysis
    /\ feed = NoFeed
SelectSpec == SelectInit /\ [][SelectNext]_vars

\* One discovery run over a rotation longer than the guard of the loop; the
\* run goes on while it can.
DiscoverInit ==
    /\ ex = ExecIdleFrame
    /\ posts = <<>>
    /\ broker = {}
    /\ tasks = NoTasks
    /\ workers = AllIdle
    /\ config = [gmass_key |-> FALSE, transport |-> "gmass"]
    /\ leads = [l \in LeadIds |-> Lead(FALSE, FALSE, NullDate)]
    /\ outreach = {}
    /\ pipeline_runs = <<>>
    /\ pl = PlIdle
    /\ orun = [r \in OutreachRuns |-> OutreachIdle]
    /\ schedEnv = [schedule_time |-> 0, allowed_days |-> 1..5,
                   run_on_startup |-> FALSE, catchup_on_boot |-> FALSE]
    /\ sched = SchedIdle
    /\ wall = [date |-> 1, slot |-> 0]
    /\ shutdown_requested = FALSE
    /\ reqs = NoRequests
    /\ agent_runs = {}
    /\ agent_metrics = {}
    /\ run_seq = 0
    /\ post = [q \in PostIds |-> PostIdle]
    /\ get = [g \in GetIds |-> GetIdle]
    /\ city_rotation = RotationByDay
    /\ today = NumDiscoverCities + 1
    /\ disc = DiscIdle
    /\ picks = <<>>
    /\ lead_table \in {<<>>, <<NewLead(SearchLead("a.com"))>>}
    /\ ins = NoInsert
    /\ run_dates = <<>>
    /\ areq = NoStatusRequest
    /\ trig = NoTrigger
    /\ parse = NoParse
    /\ outreach_table = <<>>
    /\ current_date = 1
    /\ frun = FollowupIdle
    /\ sel = NoSelect
    /\ drun = DiscoverIdle
    /\ reset = NoReset
    /\ rt = NoRetry
    /\ analysis = NoAnalysis
    /\ feed = NoFeed
DiscoverSpec == DiscoverInit /\ [][DiscoverNext]_vars /\ WF_vars(DiscoverNext)

Spec == CelerySpec

(***************************************************************************)
(* Claims about the scheduler and the agent runtime.                       *)
(***************************************************************************)
Terminal(t) == tasks[t].state \in {"SUCCESS", "FAILURE"}
Registered(t) == tasks[t].agent \in DOMAIN AGENT_REGISTRY
Executing(agent_name) == {w \in Workers : workers[w] # 0 /\ tasks[workers[w]].agent = agent_name}

\* C1: for every agent name, at most one run_agent task of that name is inside
\* agent.execute() at a time, whatever the beat producer and the workers do.
C1_AtMostOneActivePerAgent ==
    \A a \in ScheduleArgs : Cardinality(Executing(a)) <= 1

\* C2: an invocation of execute() on a named agent attempts exactly one push,
\* after run() has finished; the envelope has empty metrics and a non-null
\* error when run() raised, and run()'s mapping and a null error when it
\* returned.
C2_OnePushAfterRun ==
    /\ ex.pc \in {"run", "finally"} => ex.pushesThisCall = 0
    /\ \A i, j \in 1..Len(posts) : posts[i].call = posts[j].call => i = j
    /\ (ex.pc \in {"returned", "raised"} /\ ~NameMissing(ex.name)) =>
          /\ ex.pushesThisCall = 1
          /\ Len(posts) >= 1
          /\ LET p == posts[Len(posts)] IN
             /\ p.call = ex.calls
             /\ p.at > ex.runEnd
             /\ p.payload.agent_name = ex.name
             /\ p.payload.finished_at >= p.payload.started_at
             /\ ex.run.kind = "raise" =>
                   /\ p.payload.metrics = EmptyMetrics
                   /\ ~p.payload.error.null
                   /\ p.payload.error.text = Str(ex.run.exc)
             /\ ex.run.kind = "return" =>
                   /\ p.payload.metrics = ex.run.metrics
                   /\ p.payload.error.null
C2_Witness ==
    /\ ex.pc = "raised" /\ ~NameMissing(ex.name) /\ ex.run.kind = "raise"
    /\ Len(posts) >= 1 /\ posts[Len(posts)].http = "ok"

\* C3: what the caller of execute() sees depends only on run(): the exception
\* run() raised propagates after the push attempt, a return of run() makes
\* execute() return, and a failed push changes neither.
C3_PushNeverMasksOutcome ==
    (ex.pc \in {"returned", "raised"} /\ ~NameMissing(ex.name)) =>
        /\ ex.pushesThisCall = 1
        /\ ex.run.kind = "raise" => (ex.pc = "raised" /\ ex.outcome = ex.run.exc)
        /\ ex.run.kind = "return" => (ex.pc = "returned" /\ ex.outcome = NoExc)
C3_Witness ==
    /\ ex.pc = "returned" /\ ~NameMissing(ex.name) /\ ex.run.kind = "return"
    /\ Len(posts) >= 1 /\ posts[Len(posts)].http = "fail"
    /\ posts[Len(posts)].call = ex.calls

\* C4: a task of a registered agent executes the agent at most
\* max_retries + 1 = 4 times; when every attempt raised it ends FAILURE with
\* the last exception, when an attempt succeeded it ends SUCCESS and nothing
\* is attempted afterwards; every enqueued task reaches a terminal state.
C4_Safety ==
    \A t \in TaskIds : Registered(t) =>
        /\ tasks[t].executions <= max_retries + 1
        /\ tasks[t].state = "FAILURE" =>
              /\ tasks[t].executions = max_retries + 1
              /\ tasks[t].result # NoExc
              /\ tasks[t].result = tasks[t].raised
        /\ tasks[t].state = "SUCCESS" => tasks[t].raised = NoExc
        /\ Terminal(t) =>
              /\ \A m \in broker : m.id # t
              /\ \A w \in Workers : workers[w] # t
C4_RetriesBoundedAndTerminal ==
    /\ []C4_Safety
    /\ [][\A t \in TaskIds : Terminal(t) => tasks'[t] = tasks[t]]_vars
    /\ \A t \in TaskIds : (tasks[t].state # "NONE") ~> Terminal(t)
C4_Witness ==
    \E t \in TaskIds : Registered(t) /\ tasks[t].state = "FAILURE" /\ tasks[t].executions = 4

\* C5: a task fired with a name that is no key of AGENT_REGISTRY fails at once
\* and is never re-queued: no agent is instantiated, execute() is not called
\* and no envelope is pushed.
C5_UnknownAgentFailsWithoutRetry ==
    \A t \in TaskIds : (tasks[t].state # "NONE" /\ ~Registered(t)) =>
        /\ tasks[t].state \in {"PENDING", "FAILURE"}
        /\ tasks[t].instances = 0
        /\ tasks[t].executions = 0
        /\ tasks[t].pushes = 0
        /\ tasks[t].retries = 0
        /\ \A w \in Workers : workers[w] # t
        /\ \A m \in broker : m.id = t => (m.retries = 0 /\ tasks[t].state = "PENDING")
        /\ tasks[t].state = "FAILURE" => tasks[t].result.type = "ValueError"
C5_Witness ==
    \E t \in TaskIds : ~Registered(t) /\ tasks[t].state = "FAILURE"


(***************************************************************************)
(* Claims about the pipeline driver.                                       *)
(***************************************************************************)
InTrace(s) == \E i \in 1..Len(pl.trace) : pl.trace[i] = s
InErrors(label) == \E i \in 1..Len(pl.errors) : pl.errors[i] = label
Later(s) == {t \in Stages : StageIndex(t) > StageIndex(s)}
ErrorLabel(s) ==
    CASE s = "discover_leads" -> "Discovery"
      [] s = "enrich_leads" -> "Website enrichment"
      [] s = "apollo_enrich" -> "Apollo enrichment"
      [] s = "ai_analyze" -> "AI analysis"
      [] s = "build_excel" -> "Excel"
      [] s = "build_email_body" -> "Email body"
      [] s = "send_email" -> "Email send"
      [] s = "send_outreach" -> "Outreach"
\* The stages that have a count in stats, and its key.
Counted == Stages \ {"build_excel", "build_email_body"}
CountKey(s) ==
    CASE s = "discover_leads" -> "discovered"
      [] s = "enrich_leads" -> "enriched"
      [] s = "apollo_enrich" -> "with_email"
      [] s = "ai_analyze" -> "ai_analyzed"
      [] s = "send_email" -> "sent"
      [] s = "send_outreach" -> "outreach_sent"
\* Whether the driver's own conditions call for stage t in this run.
Due(t) ==
    IF t \in {"discover_leads", "enrich_leads", "apollo_enrich", "ai_analyze"}
    THEN pl.critical # "init_db"
    ELSE IF t = "send_outreach"
    THEN pl.selectedOk /\ config.gmass_key
    ELSE pl.selectedOk /\ pl.selected # {}

C12_FailedIffErrorMessage ==
    \A r \in agent_runs : (r.status = "failed") <=> ~r.error_message.null

MetricsOfRun(id) == {m \in agent_metrics : m.run_id = id}
\* C13: every AgentMetric row has exactly one of metric_value / metric_text
\* non-null; an int or float that is not a bool populates metric_value, every
\* other value (a bool included) populates metric_text with its str(); and a
\* committed request has one row per entry of its metrics mapping.
C13_OneColumnPerMetric ==
    /\ \A m \in agent_metrics : m.metric_value.null # m.metric_text.null
    /\ \A q \in PostIds : post[q].pc = "done" =>
        /\ Cardinality(MetricsOfRun(post[q].run_id)) = Cardinality(post[q].payload.metrics)
        /\ \A e \in post[q].payload.metrics :
             \E m \in MetricsOfRun(post[q].run_id) :
                /\ m.metric_name = e[1]
                /\ IF e[2].type \in {"int", "float"}
                   THEN m.metric_value = Some(e[2].repr) /\ m.metric_text.null
                   ELSE m.metric_text = Some(e[2].repr) /\ m.metric_value.null
C13_Witness ==
    \E q \in PostIds :
        /\ post[q].pc = "done"
        /\ <<"dry_run", BoolValue>> \in post[q].payload.metrics
        /\ \E m \in MetricsOfRun(post[q].run_id) :
               m.metric_name = "dry_run" /\ m.metric_text = Some("True")
        /\ \E p \in PostIds : post[p].pc = "done" /\ <<"leads", IntValue>> \in post[p].payload.metrics

\* C14: ingest is all-or-nothing. After any POST /metrics, failed ones
\* included (also after the flush that drew run_id), the store holds the run
\* together with one metric row per entry of the mapping, or none of them;
\* and a GET /metrics running at the same time never returns a run without
\* its complete set of metrics.
C14_IngestAtomic ==
    /\ \A q \in PostIds :
          IF post[q].pc = "done"
          THEN /\ \E r \in agent_runs : r.id = post[q].run_id
               /\ {m.metric_name : m \in MetricsOfRun(post[q].run_id)}
                     = {e[1] : e \in post[q].payload.metrics}
          ELSE post[q].run_id # 0 =>
               /\ ~\E r \in agent_runs : r.id = post[q].run_id
               /\ MetricsOfRun(post[q].run_id) = {}
    /\ \A r \in agent_runs : \E q \in PostIds : post[q].pc = "done" /\ post[q].run_id = r.id
    /\ \A m \in agent_metrics : \E r \in agent_runs : r.id = m.run_id
    /\ \A g \in GetIds : get[g].pc = "done" =>
          \A x \in get[g].result :
             \E q \in PostIds :
                /\ post[q].pc = "done"
                /\ post[q].run_id = x.run_id
                /\ {e[1] : e \in x.metrics} = {e[1] : e \in post[q].payload.metrics}
\* One request failed after its flush, the other committed two metrics, and
\* a GET that selected its runs before the failure returned the committed run.
C14_Witness ==
    /\ \E q \in PostIds : post[q].pc = "failed" /\ post[q].run_id # 0
    /\ \E q \in PostIds : post[q].pc = "done" /\ Cardinality(post[q].payload.metrics) = 2
    /\ \E g \in GetIds : get[g].pc = "done" /\ \E x \in get[g].result : Cardinality(x.metrics) = 2

\* C15: GET /metrics with limit L never returns more than L runs, and when
\* more than L runs match the filters it returns the L matching runs with
\* the greatest started_at.
C15_MostRecentRuns ==
    \A g \in GetIds : get[g].pc # "none" =>
        /\ Cardinality(get[g].runs) <= get[g].limit
        /\ Cardinality(get[g].matching) > get[g].limit =>
              /\ Cardinality(get[g].runs) = get[g].limit
              /\ \A x \in get[g].runs : \A y \in get[g].matching \ get[g].runs :
                     y.started_at <= x.started_at

(***************************************************************************)
(* Claims about the pipeline store.                                        *)
(***************************************************************************)
\* C16: from the seeded rotation, every window of N consecutive picks (N the
\* number of cities) contains each city exactly once.
C16_PermutationCycle ==
    \A i \in 1..Len(picks) :
        i + NumCities - 1 <= Len(picks) =>
            \A j, k \in i..(i + NumCities - 1) : j # k => picks[j] # picks[k]

\* C17: get_leads_needing_email_enrichment returns no lead with an email; a
\* lead with email NULL, a website and status 'new' is eligible whatever its
\* email_source; and an enrichment attempt that found no email never takes
\* the lead out of the retry set.
C17_RetrySetKeepsLeads ==
    /\ \A S \in GetLeadsNeedingEmailEnrichment(lead_table, LEADS_PER_DAY) :
          \A l \in S : lead_table[l].email.null
    /\ \A l \in 1..Len(lead_table) :
          (lead_table[l].email.null /\ lead_table[l].website /\ lead_table[l].status = "new")
             => \E S \in GetLeadsNeedingEmailEnrichment(lead_table, Len(lead_table)) : l \in S
    /\ \A l \in 1..Len(lead_table) :
          (lead_table[l].attempted /\ ~lead_table[l].found /\ lead_table[l].status = "new")
             => l \in NeedingEmail(lead_table)

\* C18: when lead_exists(domain) is true, insert_lead with that domain
\* returns None and leaves the leads table unchanged; and no operation ever
\* makes the number of leads smaller.
C18_Inv ==
    (ins.called /\ ins.existed) => (ins.returned = 0 /\ ins.unchanged)
C18_NoDuplicateNoLoss ==
    /\ []C18_Inv
    /\ [][Len(lead_table') >= Len(lead_table)]_vars
C18_Witness ==
    /\ ins.called /\ ins.existed /\ ins.returned = 0
    /\ Len(lead_table) = 2
    /\ lead_table[1].status = "sent"

(***************************************************************************)
(* Claims about the facade and the scheduler functions.                    *)
(***************************************************************************)
MatchingRunDates(updated_after) ==
    SelectSeq(run_dates, LAMBDA d : Millis(d) >= InstantMillis(updated_after))
\* C19: for any updated_after, agent-status returns exactly one row per
\* pipeline run whose run_date >= updated_after (bucket_start the run time
\* floored to 10 minutes, runs_total 1); when no run matches, the single
\* snapshot row, or the empty list if the snapshot fallback yields nothing.
C19_RowsPerMatchingRun ==
    areq.pc = "done" =>
        LET want == MatchingRunDates(areq.updated_after)
        IN IF want # <<>>
           THEN /\ Len(areq.result) = Len(want)
                /\ \A i \in 1..Len(want) :
                      /\ areq.result[i].kind = "run"
                      /\ areq.result[i].updated_at = want[i]
                      /\ areq.result[i].runs_total = 1
                      /\ areq.result[i].bucket_start.second = 0
                      /\ areq.result[i].bucket_start.minute % 10 = 0
                      /\ areq.result[i].bucket_start.minute <= want[i].minute
                      /\ want[i].minute < areq.result[i].bucket_start.minute + 10
           ELSE areq.result = BuildSnapshotRows(areq.updated_after)

\* C20: _should_trigger_scheduled_run. On an allowed weekday it returns
\* false when now's (hour, minute) is before schedule_time, true when it is at
\* or after schedule_time and last_run_date differs from now's date, false
\* once last_run_date equals now's date; on any other weekday, false.
TrigAllowed == IsoWeekday(trig.now.date) \in trig.allowed_days
TrigBefore ==
    \/ trig.now.hour < trig.schedule_time.hour
    \/ trig.now.hour = trig.schedule_time.hour /\ trig.now.minute < trig.schedule_time.minute
C20_TriggerFunction ==
    trig.pc = "returned" =>
        /\ ~TrigAllowed => ~trig.result
        /\ (TrigAllowed /\ TrigBefore) => ~trig.result
        /\ (TrigAllowed /\ ~TrigBefore /\ trig.last # trig.now.date) => trig.result
        /\ (TrigAllowed /\ trig.last = trig.now.date) => ~trig.result
\* The call at exactly the schedule time, on an allowed day not yet marked.
C20_Witness ==
    /\ trig.pc = "returned" /\ trig.result
    /\ trig.now.hour = trig.schedule_time.hour
    /\ trig.now.minute = trig.schedule_time.minute
    /\ trig.last # NullDate

\* C21: _parse_schedule_days. "*" gives 1..7; a range a-b gives a..b when
\* a <= b and a..7 with 1..b when a > b ("5-1" is {5,6,7,1}); a comma list
\* gives the union of its parts; a text that resolves to no day, or that holds
\* a day outside 1..7, raises; a returned set is a non-empty subset of 1..7.
DayChar(d) == CASE d = 1 -> "1" [] d = 5 -> "5" [] OTHER -> "8"
CommaAt(v, i) == i \in 1..Len(v) /\ v[i] = ","
C21_ParseScheduleDays ==
    parse.pc = "returned" =>
        LET v == parse.value
            r == parse.result
        IN  /\ v = <<"*">> => r = DaysReturn(1..7)
            /\ v = <<"1", "-", "5">> => r = DaysReturn({1, 2, 3, 4, 5})
            /\ v = <<"5", "-", "1">> => r = DaysReturn({5, 6, 7, 1})
            /\ \A a, b \in {1, 5} :
                   v = <<DayChar(a), "-", DayChar(b)>> =>
                       r = DaysReturn(IF a <= b THEN a..b ELSE (a..7) \cup (1..b))
            /\ \A i \in 1..Len(v) :
                   (CommaAt(v, i) /\ ~Contains(v, "*")) =>
                       LET left == ParseScheduleDays(SubSeq(v, 1, i - 1))
                           right == ParseScheduleDays(SubSeq(v, i + 1, Len(v)))
                       IN  (~left.raised /\ ~right.raised) =>
                               r = DaysReturn(left.days \cup right.days)
            /\ Contains(v, "8") => r.raised
            /\ (\A i \in 1..Len(v) : v[i] \notin DecimalDigits) /\ StrStrip(v) # <<"*">>
                   => r.raised
            /\ ~r.raised => r.days # {} /\ r.days \subseteq 1..7
\* A wrapped range in a comma list has been parsed.
C21_Witness ==
    /\ parse.pc = "returned"
    /\ parse.value = <<"1", ",", "5", "-", "1">>
    /\ parse.result = DaysReturn({1, 5, 6, 7})

(***************************************************************************)
(* Claims about followups.                                                 *)
(***************************************************************************)
FollowupRows == {f \in OutreachIds : outreach_table[f].outreach_type = "followup"}
FollowupsOf(o) == {f \in FollowupRows : outreach_table[f].origin = o}

\* C22: a followup row exists only for an initial outreach row of the same
\* lead that, when send_followups.run() selected it, had replied = false,
\* followup_sent = false and a sent date at least FOLLOWUP_DAYS days before
\* the date of the selection.
C22_FollowupOnlyWhenDue ==
    \A f \in FollowupRows :
        LET row == outreach_table[f]
        IN  /\ row.origin \in OutreachIds
            /\ outreach_table[row.origin].outreach_type = "initial"
            /\ outreach_table[row.origin].lead_id = row.lead_id
            /\ ~row.seen.replied
            /\ ~row.seen.followup_sent
            /\ row.seen.sent_date = outreach_table[row.origin].sent_date
            /\ row.selected_on - row.seen.sent_date >= FOLLOWUP_DAYS
\* A followup has been recorded and its initial row marked.
C22_Witness ==
    \E f \in FollowupRows :
        /\ outreach_table[outreach_table[f].origin].followup_sent
        /\ frun.pc = "done"

\* C23: once a run is past the insert and the mark, the initial row of every
\* followup row has followup_sent = true, and an initial outreach never has
\* more than one followup row.
C23_OneFollowupPerInitial ==
    /\ frun.pc # "inserted" =>
           \A f \in FollowupRows : outreach_table[outreach_table[f].origin].followup_sent
    /\ \A o \in OutreachIds : Cardinality(FollowupsOf(o)) <= 1

\* C24: once mark_outreach_replied(o) has completed, replied stays true,
\* status stays 'replied' and no followup row is created for o.
C24_RepliedIsTerminal ==
    [][\A o \in OutreachIds :
           outreach_table[o].replied =>
               /\ outreach_table'[o].replied
               /\ outreach_table'[o].status = "replied"
               /\ \A f \in 1..Len(outreach_table') :
                      (outreach_table'[f].outreach_type = "followup"
                       /\ outreach_table'[f].origin = o) => f \in OutreachIds]_vars

(***************************************************************************)
(* Claims about the outreach stage and the processes.                      *)
(***************************************************************************)
InitialRows(l) == {o \in outreach : o.lead_id = l /\ o.outreach_type = "initial"}

\* C9: after any executions of send_outreach.run(), overlapping ones
\* included, every lead has at most one outreach row of type 'initial'.
C9_AtMostOneInitialPerLead == \A l \in LeadIds : Cardinality(InitialRows(l)) <= 1

\* C10: within one process at most one pipeline run is active at any time, in
\* the scheduler process and in the facade process.
C10_OneActiveRunPerProcess ==
    /\ ActiveRuns("scheduler") <= 1
    /\ ActiveRuns("facade") <= 1

\* C11: over the polls of the scheduler loop of one process the daily run is
\* triggered at most once per local calendar date (the date of the poll that
\* triggers it): the date is marked before the run starts, so however long
\* the run lasts no later poll of that date triggers again.
C11_OneDailyRunPerDate ==
    /\ \A i, j \in 1..Len(sched.fired) :
           i < j => sched.fired[i].date < sched.fired[j].date
    /\ sched.pc = "scheduled_run" =>
           /\ sched.fired # <<>>
           /\ sched.last_scheduled_run_date = sched.fired[Len(sched.fired)].date
\* The daily run was triggered at slot 0, lasted into the next slot, and the
\* poll after it, on the same date and after the schedule time, did not trigger.
C11_Witness ==
    /\ Len(sched.fired) = 1
    /\ sched.fired[1].slot = 0
    /\ sched.pc = "sleep"
    /\ sched.now = [date |-> sched.fired[1].date, slot |-> 1]
    /\ IsoWeekday(sched.now.date) \in schedEnv.allowed_days

\* C25: send_outreach.run() selects only leads that have a sent_date, an
\* email and no 'initial' outreach row, and a step inserts an outreach row
\* only as the 'initial' row of a lead the run selected, in the iteration in
\* which the transport reported a successful send.
C25_InitialOnlyForEligible ==
    [][/\ \A r \in OutreachRuns :
              (orun[r].pc = "idle" /\ orun'[r].pc = "loop") =>
                  \A l \in orun'[r].selected :
                      /\ leads[l].sent_date # NullDate
                      /\ leads[l].email
                      /\ ~HasInitial(outreach, l)
       /\ \A row \in outreach' \ outreach :
              /\ row.outreach_type = "initial"
              /\ \E r \in OutreachRuns :
                     /\ row.lead_id \in orun[r].selected
                     /\ OutreachLead(r, row.lead_id, "sent")]_vars
\* A run has contacted a lead it selected.
C25_Witness ==
    \E r \in OutreachRuns :
        /\ orun[r].pc = "done"
        /\ orun[r].sent_count = 1
        /\ \E l \in orun[r].selected : HasInitial(outreach, l)

\* C26: in a pipeline run, when send_email.run returned True exactly the
\* leads selected for the report get sent_date = run date and status 'sent';
\* when it returned False or raised, and in every other step of the run, no
\* lead's sent_date or status changes.
SentColumnsUnchanged ==
    \A l \in LeadIds :
        leads'[l].sent_date = leads[l].sent_date /\ leads'[l].status = leads[l].status
C26_SentFollowsSend ==
    [][/\ (SendEmail("true") \/ SendEmail("true_mark_raises")) =>
              \A l \in LeadIds :
                  IF l \in pl.selected
                  THEN leads'[l].sent_date = Today /\ leads'[l].status = "sent"
                  ELSE leads'[l] = leads[l]
       /\ (SendEmail("false") \/ SendEmail("raise")) => SentColumnsUnchanged
       /\ pl.pc # "send_email" => SentColumnsUnchanged]_vars

\* C27: get_unsent_leads(limit) returns at most limit leads, each with
\* sent_date NULL, status 'new' and an AI summary, and no lead with these
\* three properties that is left out has a strictly higher priority class
\* (email and phone, email only, phone only, neither) than a returned lead.
ReportClass(row) ==
    IF row.email THEN (IF row.phone THEN 4 ELSE 3) ELSE (IF row.phone THEN 2 ELSE 1)
Reportable(row) == row.sent_date = NullDate /\ row.status = "new" /\ row.ai
C27_UnsentLeadsTopK ==
    sel.pc = "returned" =>
        /\ Cardinality(sel.rows) <= sel.limit
        /\ \A l \in sel.rows : l \in SelectLeadIds /\ Reportable(sel.table[l])
        /\ \A l \in sel.rows : \A x \in SelectLeadIds \ sel.rows :
               Reportable(sel.table[x]) => ReportClass(sel.table[x]) <= ReportClass(sel.table[l])
\* A phone-only lead was returned and a lead with neither was left out.
C27_Witness ==
    /\ sel.pc = "returned"
    /\ \E l \in sel.rows : \E x \in SelectLeadIds \ sel.rows :
           /\ Reportable(sel.table[x])
           /\ ReportClass(sel.table[l]) = 2
           /\ ReportClass(sel.table[x]) = 1

(***************************************************************************)
(* Claims about a discovery run.                                           *)
(***************************************************************************)
\* C28: in a discovery run no city is searched twice, and when the next city
\* is picked every city searched so far has last_searched = today and its
\* search_count raised by one, whether or not its search added a lead.
Advanced(c) ==
    city_rotation[c] = [last_searched |-> today,
                        search_count |-> RotationByDay[c].search_count + 1]
C28_PointerAdvanced ==
    /\ \A i, j \in 1..Len(drun.seen) : i # j => drun.seen[i] # drun.seen[j]
    /\ \A i \in 1..Len(drun.seen) :
           (i < Len(drun.seen) \/ drun.pc \in {"while", "done"}) => Advanced(drun.seen[i])
\* Two cities were searched without a new lead, and the run is at the next pick.
C28_Witness ==
    /\ drun.pc = "while"
    /\ Len(drun.seen) = 2
    /\ drun.added = 0
    /\ Advanced(drun.seen[1]) /\ Advanced(drun.seen[2])

\* C29: a discovery run ends; it attempts at most 10 cities and adds at most
\* LEADS_PER_DAY leads; once inserted reaches LEADS_PER_DAY it searches and
\* inserts no more; the count it returns is the number of rows it added.
C29_Bounded ==
    /\ Len(drun.attempted) <= 10
    /\ Len(drun.seen) <= 10
    /\ drun.added <= LEADS_PER_DAY
    /\ drun.inserted >= LEADS_PER_DAY => drun.pc \notin {"search", "for"}
    /\ drun.pc = "done" => drun.returned = drun.added
C29_RunTerminates ==
    /\ []C29_Bounded
    /\ (drun.pc # "idle") ~> (drun.pc \in {"done", "raised"})
\* The guard of ten cities ended a run that found nothing new.
C29_Witness ==
    /\ drun.pc = "done"
    /\ Len(drun.attempted) = 10
    /\ drun.returned = 0

\* C30: when reset_city_rotation(city, country) returns true, the row of
\* (city, country) has last_searched NULL, every other row has last_searched
\* = today, and get_next_city() returns that row and no other.
C30_ResetForcesNextPick ==
    [][(reset'.calls # reset.calls /\ reset'.returned /\ ~reset'.start_country.null) =>
           \E c \in Cities :
               /\ CityName(c) = reset'.start_city
               /\ Some(CityCountry(c)) = reset'.start_country
               /\ GetNextCity(city_rotation') = {c}
               /\ city_rotation'[c].last_searched = NullDate
               /\ \A d \in Cities \ {c} : city_rotation'[d].last_searched = today']_vars
\* A reset after two cities were searched, its target still to be picked.
C30_Witness ==
    /\ reset.returned
    /\ ~reset.start_country.null
    /\ Len(picks) = 2
    /\ \E c \in Cities :
           /\ CityName(c) = reset.start_city
           /\ Some(CityCountry(c)) = reset.start_country
           /\ city_rotation[c].last_searched = NullDate
           /\ c \in {picks[1], picks[2]}

(***************************************************************************)
(* Claims about the boot policy and the shutdown of the scheduler.         *)
(***************************************************************************)
\* The clock reading is at or after SCHEDULE_TIME on an allowed weekday.
DueAt(w) ==
    /\ IsoWeekday(w.date) \in schedEnv.allowed_days
    /\ w.slot >= schedEnv.schedule_time
\* The step in which main() passes the boot policy, and the step in which a
\* poll decides on the daily run.
BootStep == sched.pc = "boot" /\ sched'.pc # "boot"
PollStep == sched.pc = "check" /\ sched'.pc # "check"
Triggers ==
    /\ sched'.pc = "scheduled_run"
    /\ sched'.fired = Append(sched.fired, sched.now)

\* C31: a boot at or after SCHEDULE_TIME on an allowed weekday with catch-up
\* disabled marks the date of the boot, and no poll of that date triggers the
\* daily run afterwards; a poll of a later allowed date at or after
\* SCHEDULE_TIME triggers it. With catch-up enabled the boot marks nothing,
\* and the first poll, as any poll before the first daily run whose clock
\* reading is at or after SCHEDULE_TIME on an allowed weekday, triggers it.
C31_BootPolicy ==
    /\ [][BootStep =>
              sched'.last_scheduled_run_date =
                  IF ~schedEnv.catchup_on_boot /\ DueAt(wall) THEN wall.date ELSE NullDate]_vars
    /\ \A d \in Dates :
          [](  (sched.pc # "boot" /\ sched.fired = <<>> /\ sched.last_scheduled_run_date = d)
            => [](\A i \in 1..Len(sched.fired) : sched.fired[i].date # d))
    /\ [][(PollStep /\ DueAt(sched.now) /\ sched.now.date # sched.last_scheduled_run_date)
              => Triggers]_vars
    /\ [](  (schedEnv.catchup_on_boot /\ sched.fired = <<>>)
          => sched.last_scheduled_run_date = NullDate)
\* The boot marked date 1; a poll of date 2, an allowed date, at or after
\* SCHEDULE_TIME is about to trigger the daily run.
C31_Witness ==
    /\ ~schedEnv.catchup_on_boot
    /\ sched.pc = "check"
    /\ sched.fired = <<>>
    /\ sched.last_scheduled_run_date = 1
    /\ sched.now.date = 2
    /\ DueAt(sched.now)

RunInProgress == sched.pc \in {"startup_run", "scheduled_run"}

C40_NoRunAfterShutdown ==
    [][shutdown_requested => sched'.runs = sched.runs]_vars

(***************************************************************************)
(* Claims about the retry decorator and the AI analysis.                   *)
(***************************************************************************)
RetryEnded == rt.pc \in {"returned", "raised"}
Invocations == Len(rt.log)
\* The decorator: at most max_attempts invocations, each but the first after
\* a raise of a RequestException; the first return is the result; the last
\* exception is raised after max_attempts failures, any other exception at once.
C33_Decorator ==
    /\ Invocations <= rt.max_attempts
    /\ \A i \in 1..(Invocations - 1) :
           rt.log[i].seen.kind = "raise" /\ IsRequestException(rt.log[i].seen.exc)
    /\ (rt.pc = "returned" /\ Invocations > 0) =>
           /\ rt.log[Invocations].seen.kind = "return"
           /\ rt.outcome = rt.log[Invocations].seen
    /\ rt.pc = "raised" =>
           /\ rt.log[Invocations].seen.kind = "raise"
           /\ rt.outcome = rt.log[Invocations].seen
           /\ IsRequestException(rt.outcome.exc) => Invocations = rt.max_attempts
    /\ rt.pc \in {"loop", "sleep"} => ~(\E i \in 1..Invocations : rt.log[i].seen.kind = "return")
\* The sender: a call whose HTTP request failed with a network error is
\* followed by another invocation unless max_attempts is used up.
C33_SenderRetried ==
    (RetryEnded /\ rt.func = "send_transactional_email" /\ Invocations > 0) =>
        (rt.log[Invocations].http \in NetworkErrors => Invocations = rt.max_attempts)

\* C33: a function wrapped by retry(max_attempts = n, exceptions = E) is
\* invoked at most n times, again only after it raised an exception in E;
\* the first result is returned, the last exception is raised after n
\* failures and an exception outside E at once; and send_transactional_email
\* is invoked again after a network error until its bound is reached.
C33_RetryBounded == C33_Decorator /\ C33_SenderRetried

\* A provider call failed: it raised, or returned no text, or a text that is
\* no JSON object with a summary and automations.
CallOf(provider) == CHOOSE i \in 1..Len(analysis.calls) : analysis.calls[i] = provider
Called(provider) == \E i \in 1..Len(analysis.calls) : analysis.calls[i] = provider
ProviderFailed(provider) ==
    LET o == analysis.answers[CallOf(provider)]
    IN  \/ o.kind = "raise"
        \/ o.value \in {"None", "", "no json", "{summary}"}

\* C34: of the providers that are configured the primary is called first and
\* the secondary only after the primary failed; the generic fallback is
\* returned only after the configured providers failed; and the pair that
\* _analyze_lead returns has a non-empty summary and a list of automations.
C34_FallbackOrder ==
    /\ analysis.calls \in {<<>>, <<"gemini">>, <<"openai">>, <<"gemini", "openai">>}
    /\ Called("gemini") <=> (analysis.gemini_key /\ analysis.pc \notin {"none", "gemini"})
    /\ (Called("gemini") /\ analysis.pc \in {"openai", "fallback"}) => ProviderFailed("gemini")
    /\ Called("openai") => (analysis.openai_key /\ (Called("gemini") => ProviderFailed("gemini")))
    /\ (analysis.pc = "returned" /\ analysis.result.source = "fallback") =>
           /\ analysis.gemini_key => (Called("gemini") /\ ProviderFailed("gemini"))
           /\ analysis.openai_key => (Called("openai") /\ ProviderFailed("openai"))
    /\ analysis.pc = "returned" =>
           /\ analysis.result.summary # ""
           /\ analysis.result.automations \in {"list of 3", "empty list"}

(***************************************************************************)
(* Claims about the rows of the facade.                                    *)
(***************************************************************************)
\* The errors a run recorded, as log_pipeline_run stored them.
RecordedErrors(row) == IF row.errors.null THEN <<>> ELSE row.errors.list

\* C35: the status row of a run with e errors has success_rate =
\* max(0, 100 - 25 e), between 0 and 100, and status 'Activo' for e = 0,
\* 'Optimizando' for e = 1 or 2 and 'En revisión' for e >= 3.
C35_StatusAndSuccessRate ==
    feed.pc = "status" =>
        /\ Len(feed.status_rows) = Len(feed.rows)
        /\ \A i \in 1..Len(feed.rows) :
              LET e == Len(RecordedErrors(feed.rows[i]))
                  row == feed.status_rows[i]
              IN  /\ row.success_rate = (IF 100 - 25 * e > 0 THEN 100 - 25 * e ELSE 0)
                  /\ row.success_rate \in 0..100
                  /\ row.status = (CASE e = 0 -> "Activo"
                                     [] e \in {1, 2} -> "Optimizando"
                                     [] OTHER -> "En revisión")

\* The position before the events of run i in the list of events.
RECURSIVE EventsBefore(_)
EventsBefore(i) ==
    IF i = 1 THEN 0 ELSE EventsBefore(i - 1) + 1 + Len(RecordedErrors(feed.rows[i - 1]))
MentionsCritical(text) ==
    \E i \in 1..Len(text) :
        text[i] \in {"critical", "Critical", "CRITICAL", "fatal", "Fatal", "FATAL",
                     "traceback", "Traceback", "TRACEBACK"}

\* C36: when at least one run matches, the events are, run by run in the
\* order of run_date, one 'pipeline_run' event followed by one
\* 'pipeline_error' event per error of the run, in the order of the errors;
\* an error event is 'critical' when its text holds critical, fatal or
\* traceback in any case, and 'warning' otherwise.
C36_EventsPerRun ==
    (feed.pc = "events" /\ feed.rows # <<>>) =>
        /\ Len(feed.events) = EventsBefore(Len(feed.rows) + 1)
        /\ \A i \in 1..Len(feed.rows) :
              LET errors == RecordedErrors(feed.rows[i])
                  at == EventsBefore(i)
              IN  /\ feed.events[at + 1].event_type = "pipeline_run"
                  /\ feed.events[at + 1].occurred_at = feed.rows[i].run_date
                  /\ \A k \in 1..Len(errors) :
                        /\ feed.events[at + 1 + k].event_type = "pipeline_error"
                        /\ feed.events[at + 1 + k].occurred_at = feed.rows[i].run_date
                        /\ feed.events[at + 1 + k].summary = errors[k]
                        /\ feed.events[at + 1 + k].severity =
                               (IF MentionsCritical(errors[k]) THEN "critical" ELSE "warning")
\* Two runs matched; the first recorded three errors, a warning among them,
\* and four events precede the summary event of the second.
C36_Witness ==
    /\ feed.pc = "events"
    /\ Len(feed.rows) = 2
    /\ Len(RecordedErrors(feed.rows[1])) = 3
    /\ Len(feed.events) >= 5
    /\ feed.events[5].event_type = "pipeline_run"
    /\ \E k \in 2..4 : feed.events[k].severity = "warning"
    /\ \E k \in 2..4 : feed.events[k].severity = "critical"

(***************************************************************************)
(* Claims about the agent runtime and the collector together.              *)
(***************************************************************************)
\* C37: when run() of an execution raised and the envelope of that execution
\* was delivered and committed, the AgentRun row it created has status
\* 'failed', whatever the exception, one with an empty message included.
C37_RaisedRunsRecordedFailed ==
    \A q \in PostIds :
        (/\ q \in 1..Len(posts)
         /\ posts[q].call = ex.calls
         /\ ex.run.kind = "raise"
         /\ post[q].pc = "done")
        => \E r \in agent_runs : r.id = post[q].run_id /\ r.status = "failed"

(***************************************************************************)
(* Claims about the leads of a sent report.                                *)
(***************************************************************************)
\* send_email.run of the run in hand returned True for a report holding l.
ReportSentWith(l) ==
    /\ l \in pl.selected
    /\ InTrace("send_email")
    /\ "send_email" \notin pl.raised
    /\ ~InErrors("Email: send_email returned False")

\* C38: from the moment a report holding a lead has been sent,
\* get_unsent_leads does not select that lead (the selection of a later run
\* is taken from the leads table as this run leaves it), also when
\* mark_leads_sent failed.
C38_AtMostOneReportPerLead ==
    \A l \in LeadIds :
        ReportSentWith(l) =>
            \A S \in GetUnsentLeads(leads, LEADS_PER_DAY) : l \notin S

(***************************************************************************)
(* Claims about a reset of the rotation that names an absent city.         *)
(***************************************************************************)
\* The step is a call of reset_city_rotation whose target matches no row.
ResetOfAbsentCity ==
    /\ reset'.calls # reset.calls
    /\ ResetTargets(city_rotation, reset'.start_city, reset'.start_country) = {}

\* C39: a reset that names a city absent from the rotation returns false and
\* leaves last_searched and search_count of every row as they were.
C39_AbsentCityResetSkipped ==
    [][ResetOfAbsentCity => (~reset'.returned /\ city_rotation' = city_rotation)]_vars

====
